---- MODULE Spec2Model ----
(***************************************************************************)
(* Conversational generation core of the Glee desktop application:         *)
(* message graph (MessageRepo / MessageService), generation queue          *)
(* (QueueRepo), the single queue worker (workers/queue_worker.rs), the     *)
(* shared generation slot and inference handle (state.rs), and the         *)
(* persona repository (PersonaRepo).                                       *)
(***************************************************************************)
EXTENDS Integers, Sequences, FiniteSets, TLC

\* ---------------------------------------------------------------- bounds
MaxMsgs == 3        \* message ids handed out by new_id()
MaxTasks == 2       \* rows ever inserted into message_queue
MaxPersonas == 3    \* persona rows ever inserted

Convs == {"c1"}
Clients == {"k1", "k2"}
Nil == 0
NoConv == "none"

VARIABLES
    messages,        \* table messages: set of rows
    active_message,  \* conversations.active_message_id, per conversation
    conv_state,      \* per conversation: "absent" | "live" | "deleted"
    next_id,         \* next fresh message id
    queue,           \* table message_queue: sequence of rows, index = id = creation order
    char_alive,      \* the character row has deleted_at IS NULL
    sidecar,         \* AppState.sidecar: Nil (None) or Handle (Some)
    stopped,         \* stop_sidecar was started for the handle last removed from the slot
    generating,      \* AppState.generating: NoGen or a GenerationState
    cancelled,       \* the CancellationToken of the current generation is cancelled
    streams,         \* open generation streams (task ids), until terminal event consumed
    wpc,             \* position of the worker inside run / process_queue
    wTask,           \* the worker's local task (id) and its local copy
    wMsg,            \* the worker's placeholder message id
    emitted,         \* events emitted by the last step
    send_result,     \* what send_message returned, if the last step was a send_message
    prev_active,     \* active_message just before the placeholder was created
    touched,         \* a command acted on the generating conversation since then
    personas,        \* table personas: id -> row
    ppc,             \* per client: position inside a persona command
    gen_old,         \* message id of the generation whose started_at is older than the timeout
    chan,            \* the worker's mpsc channel (queue_tx / rx): QueueMessage values in order
    shut,            \* AppState::shutdown: "no" | "notified" (worker woken) | "missed"
    snap,            \* the conversation as it was when a regenerate_message was asked for
    resp,            \* generate_response: its message, full_content, and the events emitted
    content,         \* messages.content as written by update_content, per message id
    spc,             \* position of the stop_generation command: "idle" | "read"
    token_filter,    \* the TokenFilter of generate_response: buffer and its two flags
    fed,             \* the raw stream: what is still to come, what was fed, what was shown
    ctx,             \* the last build_context call: its inputs and its ContextResult
    reader,          \* generate_stream's reader task, its channel and generate_response
    memory,          \* table memory_entries of one character, and the clock
    summaries,       \* table summaries of one conversation, its chain, and the clock
    downloads,       \* the one row of table downloads, its task, and the partial file
    jobs,            \* the summarizer and extractor jobs process_queue has spawned
    procs            \* the inference child processes spawned, and who holds their handle

msgVars == <<messages, active_message, conv_state, next_id>>
workerVars == <<wpc, wTask, wMsg, prev_active, touched>>
sidecarVars == <<sidecar, stopped>>
genVars == <<generating, cancelled, streams>>
personaVars == <<personas, ppc>>
filterVars == <<token_filter, fed>>
storeVars == <<memory, summaries, downloads>>
lateVars == <<jobs, procs>>
moreVars == <<ctx, reader, storeVars, lateVars>>
auxVars == <<gen_old, chan, shut, snap, resp, content, spc, token_filter, fed, ctx, reader,
             memory, summaries, downloads, jobs, procs>>
coreVars == <<messages, active_message, conv_state, next_id, queue, char_alive,
              sidecar, stopped, generating, cancelled, streams,
              wpc, wTask, wMsg, emitted, send_result, prev_active, touched>>
vars == <<messages, active_message, conv_state, next_id, queue, char_alive,
          sidecar, stopped, generating, cancelled, streams,
          wpc, wTask, wMsg, emitted, send_result, prev_active, touched,
          personas, ppc, gen_old, chan, shut, snap, resp, content, spc,
          token_filter, fed, ctx, reader, memory, summaries, downloads, jobs, procs>>

NoGen == [message_id |-> Nil, conversation_id |-> NoConv]
NoSnap == [m |-> Nil, act |-> Nil, chain |-> {}, active |-> {}, sibs |-> {}, len |-> 0]
NoResp == [mid |-> Nil, full_content |-> <<>>, events |-> <<>>]
\* TokenFilter::new
TokenFilter_new == [buffer |-> <<>>, in_thinking_block |-> FALSE, in_response_block |-> FALSE]
NoContext ==
    [messages |-> <<>>, max_tokens |-> 0, sys_tokens |-> 0, response_reserve |-> 0,
     history |-> <<>>, total_tokens |-> 0, built |-> FALSE]
NoReader ==
    [phase |-> "none", wire |-> <<>>, buffer |-> <<>>, lines |-> <<>>, token_count |-> 0,
     handled |-> <<>>, tx |-> <<>>, sent |-> <<>>, cancelled |-> FALSE, outcome |-> "none"]
NoMemory ==
    [rows |-> <<>>, now |-> 1, calls |-> 0, updated |-> {}, inserted |-> 0,
     facts |-> <<>>, existing |-> <<>>, start |-> <<>>]
NoSummaries == [chain |-> <<>>, rows |-> <<>>, now |-> 1, spawned |-> 0]
NoDownloads ==
    [status |-> "none", error_message |-> Nil, file |-> FALSE, chan |-> <<>>,
     cancel_flag |-> FALSE, pc |-> "none", chunks |-> 0]
Callers == {1, 2}    \* concurrent invocations of a command
NoProcs == [handle |-> Nil, alive |-> {}, spawned |-> 0, held |-> Nil, stopping |-> Nil,
            pc |-> [k \in Callers |-> [at |-> "idle", child |-> Nil]]]
NoStream == [todo |-> <<>>, raw |-> <<>>, shown |-> {}, phase |-> "none"]
Handle == 1

\* ------------------------------------------------------- message graph
MsgIds(ms) == {m.id : m \in ms}
Msg(ms, id) == CHOOSE m \in ms : m.id = id
ConvMsgs(ms, c) == {m \in ms : m.conv = c}

SetMax(S) == CHOOSE x \in S : \A y \in S : y <= x

RECURSIVE Closure(_, _)
\* ids reachable downwards from the set S (the recursive CTE "descendants")
Closure(ms, S) ==
    LET next == S \cup {m.id : m \in {x \in ms : x.parent \in S}}
    IN IF next = S THEN S ELSE Closure(ms, next)

Descendants(ms, id) == Closure(ms, {id} \cap MsgIds(ms))

RECURSIVE Ancestors(_, _)
\* id and its transitive parents (the recursive CTE "ancestors")
Ancestors(ms, id) ==
    IF id = Nil \/ id \notin MsgIds(ms) THEN {}
    ELSE {id} \cup Ancestors(ms, Msg(ms, id).parent)

\* the sibling group of a parent, or the root group of a conversation
Group(ms, p, c) ==
    IF p # Nil THEN {m \in ms : m.parent = p}
    ELSE {m \in ms : m.conv = c /\ m.parent = Nil}

\* an index that does not look at the siblings
get_next_branch_index_zero(ms, p, c) == 0

get_next_branch_index(ms, p, c) ==
    LET g == Group(ms, p, c)
    IN (IF g = {} THEN -1 ELSE SetMax({m.bidx : m \in g})) + 1

\* PRAGMA foreign_keys = ON: a row may only name an existing parent
ParentExists(ms, p) == p = Nil \/ p \in MsgIds(ms)

\* a new row; every creating path sets is_active_branch = true
NewMessage(id, c, p, author, bidx, isEmpty) ==
    [id |-> id, conv |-> c, parent |-> p, author |-> author,
     active |-> TRUE, bidx |-> bidx, empty |-> isEmpty]

\* isEmpty: the generated text is the empty string
update_content(ms, id, isEmpty) ==
    {IF m.id = id THEN [m EXCEPT !.empty = isEmpty] ELSE m : m \in ms}

MessageRepo_create(ms, m) == ms \cup {m}

\* ON DELETE CASCADE on messages.parent_id
CascadeDelete(ms, id) == {m \in ms : m.id \notin Descendants(ms, id)}

\* ON DELETE SET NULL on conversations.active_message_id
SetNullActive(act, ms) ==
    [c \in Convs |-> IF act[c] \in MsgIds(ms) THEN act[c] ELSE Nil]

MessageRepo_delete(ms, id) == CascadeDelete(ms, id)

update_active_message(act, ms, c, id) ==
    IF id \in MsgIds(ms) THEN [act EXCEPT ![c] = id] ELSE act

set_branch_active(ms, id, b) ==
    {IF m.id = id THEN [m EXCEPT !.active = b] ELSE m : m \in ms}

deactivate_subtree(ms, root) ==
    LET d == Descendants(ms, root)
    IN {IF m.id \in d THEN [m EXCEPT !.active = FALSE] ELSE m : m \in ms}

activate_path_to_root(ms, id) ==
    LET a == Ancestors(ms, id)
    IN {IF m.id \in a THEN [m EXCEPT !.active = TRUE] ELSE m : m \in ms}

find_children(ms, p) == {m \in ms : m.parent = p}

find_siblings(ms, id) ==
    LET m == Msg(ms, id) IN Group(ms, m.parent, m.conv)

\* first row of a set of rows under ORDER BY branch_index ASC
FirstByIndex(S) == CHOOSE m \in S : \A o \in S : m.bidx <= o.bidx

\* a walk that activates nothing below the target
activate_deepest_path_none(ms, cur) == ms

RECURSIVE activate_deepest_path(_, _)
activate_deepest_path(ms, cur) ==
    LET children == find_children(ms, cur)
        act == {c \in children : c.active}
        nxt == IF act # {} THEN FirstByIndex(act) ELSE FirstByIndex(children)
    IN IF children = {} THEN ms
       ELSE activate_deepest_path(set_branch_active(ms, nxt.id, TRUE), nxt.id)

RECURSIVE find_deepest_active(_, _)
\* find_active_child is LIMIT 1 without ORDER BY: any active child may be returned
find_deepest_active(ms, cur) ==
    LET act == {c \in find_children(ms, cur) : c.active}
    IN IF act = {} THEN {cur}
       ELSE UNION {find_deepest_active(ms, c.id) : c \in act}

\* the possible results <<messages, active_message>> of switch_to_branch
switch_to_branch(ms, act, id) ==
    LET target == Msg(ms, id)
        sibs == {s \in find_siblings(ms, id) : s.active /\ s.id # id}
        d == UNION {Descendants(ms, s.id) : s \in sibs}
        ms1 == {IF m.id \in d THEN [m EXCEPT !.active = FALSE] ELSE m : m \in ms}
        ms2 == set_branch_active(ms1, id, TRUE)
        ms3 == activate_path_to_root(ms2, id)
        ms4 == activate_deepest_path(ms3, id)
    IN {[msgs |-> ms4, active |-> update_active_message(act, ms4, target.conv, deep)] :
            deep \in find_deepest_active(ms4, id)}

\* the possible results of MessageService::delete
MessageService_delete(ms, act, id) ==
    LET message == Msg(ms, id)
        others == {s \in find_siblings(ms, id) : s.id # id}
        pre == IF message.active /\ message.parent # Nil
               THEN IF others # {}
                    THEN switch_to_branch(ms, act, FirstByIndex(others).id)
                    ELSE {[msgs |-> ms,
                           active |-> update_active_message(act, ms, message.conv, message.parent)]}
               ELSE {[msgs |-> ms, active |-> act]}
    IN {[msgs |-> MessageRepo_delete(r.msgs, id),
         active |-> SetNullActive(r.active, MessageRepo_delete(r.msgs, id))] : r \in pre}

\* an error text is the set of the words in it; NoError is error_message NULL
NoError == {}
contains(e, w) == w \in e

\* --------------------------------------------------------------- queue
NewTask(c, p) ==
    [conv |-> c, parent |-> p, status |-> "pending", error |-> NoError]

enqueue(q, t) == Append(q, t)

Pending(q) == {i \in 1..Len(q) : q[i].status = "pending"}

\* ORDER BY priority DESC, created_at ASC LIMIT 1, for rows of priority 0 whose
\* created_at values differ (rows created within one second: SpecQueue)
get_next_pending(q) ==
    IF Pending(q) = {} THEN Nil
    ELSE CHOOSE i \in Pending(q) : \A j \in Pending(q) : i <= j

update_status(q, id, status, err) ==
    IF status \in {"completed", "failed", "cancelled"}
    THEN [q EXCEPT ![id].status = status, ![id].error = err]
    ELSE [q EXCEPT ![id].status = status]

cancel_for_conversation(q, c) ==
    [i \in 1..Len(q) |->
        IF q[i].conv = c /\ q[i].status \in {"pending", "processing"}
        THEN [q[i] EXCEPT !.status = "cancelled"] ELSE q[i]]

\* fail_task that forgets to write the status
fail_task_no_write(q, id, err) == q

fail_task(q, id, err) == update_status(q, id, "failed", err)

\* ------------------------------------------------------ generation slot
is_generating(g) == g # NoGen

\* a reservation that takes the slot whoever holds it
try_start_generation_overwrite(g, mid, c) == [message_id |-> mid, conversation_id |-> c]

\* the slot after the call; None is returned where it is the slot before the call
try_start_generation(g, mid, c) ==
    IF g # NoGen THEN g ELSE [message_id |-> mid, conversation_id |-> c]

\* a release that leaves the slot as it is
finish_generation_keep(g) == g

finish_generation(g) == NoGen

\* the texts of GenerationError::Error: the reader's 15 s stall, a request that
\* timed out, and any other failure of the request or the stream
ErrorTexts == {{"Generation", "stalled"}, {"Request", "failed", "timeout"}, {"LLM", "error"}}

\* a stall test that never matches
IsStall_never(e) == FALSE

\* the test that makes the worker take the inference handle
IsStall(e) == contains(e, "stalled") \/ contains(e, "timeout")

\* ------------------------------------------------------------ initial state
Init ==
    /\ messages = {}
    /\ active_message = [c \in Convs |-> Nil]
    /\ conv_state = [c \in Convs |-> "absent"]
    /\ next_id = 1
    /\ queue = <<>>
    /\ char_alive = TRUE
    /\ sidecar = Nil
    /\ stopped = FALSE
    /\ generating = NoGen
    /\ cancelled = FALSE
    /\ streams = {}
    /\ wpc = "idle"
    /\ wTask = Nil
    /\ wMsg = Nil
    /\ emitted = {}
    /\ send_result = "none"
    /\ prev_active = Nil
    /\ touched = FALSE
    /\ personas = [p \in 1..MaxPersonas |-> [exists |-> FALSE, is_default |-> FALSE]]
    /\ ppc = [k \in Clients |-> [op |-> "idle", id |-> Nil]]
    /\ gen_old = Nil
    /\ chan = <<>>
    /\ shut = "no"
    /\ snap = NoSnap
    /\ resp = NoResp
    /\ content = [i \in 1..MaxMsgs |-> <<>>]
    /\ spc = "idle"
    /\ token_filter = TokenFilter_new
    /\ fed = NoStream
    /\ ctx = NoContext
    /\ reader = NoReader
    /\ memory = NoMemory
    /\ summaries = NoSummaries
    /\ downloads = NoDownloads
    /\ jobs = {}
    /\ procs = NoProcs

\* a command on conversation c ran while the worker is generating for c
Touch(c) ==
    touched \/ (wpc \in {"opening", "stream"} /\ queue[wTask].conv = c)

\* what every command other than send_message leaves behind
Quiet ==
    /\ emitted' = {}
    /\ send_result' = "none"

\* ------------------------------------------------------------ commands
\* ConversationService::create; first = the character's first_message is non-empty
create_conversation(c, first) ==
    /\ conv_state[c] = "absent"
    /\ char_alive
    /\ first => next_id <= MaxMsgs
    /\ conv_state' = [conv_state EXCEPT ![c] = "live"]
    /\ IF first
       THEN /\ messages' = messages \cup {NewMessage(next_id, c, Nil, "character", 0, FALSE)}
            /\ active_message' = [active_message EXCEPT ![c] = next_id]
            /\ next_id' = next_id + 1
       ELSE UNCHANGED <<messages, active_message, next_id>>
    /\ Quiet
    /\ UNCHANGED <<queue, char_alive, sidecarVars, genVars, workerVars, personaVars, auxVars>>

\* what send_message returns, in the order the code checks
SendResult(c, blank) ==
    IF sidecar = Nil THEN "not_loaded"
    ELSE IF generating # NoGen /\ generating.conversation_id = c THEN "already_generating"
    ELSE IF blank THEN "validation"
    ELSE IF conv_state[c] # "live" THEN "not_found"
    ELSE "ok"

\* commands::message::send_message + MessageService::send_user_message, on the
\* database and the slot
send_user_message(c, blank) ==
    LET res == SendResult(c, blank)
        parent == active_message[c]
        m == NewMessage(next_id, c, parent, "user",
                        get_next_branch_index(messages, parent, c), FALSE)
    IN /\ res = "ok" => (next_id <= MaxMsgs /\ Len(queue) < MaxTasks)
       /\ IF res = "ok"
          THEN /\ messages' = MessageRepo_create(messages, m)
               /\ active_message' = update_active_message(active_message, messages', c, m.id)
               /\ next_id' = next_id + 1
               /\ queue' = enqueue(queue, NewTask(c, m.id))
               /\ touched' = Touch(c)
          ELSE UNCHANGED <<messages, active_message, next_id, queue, touched>>
       /\ send_result' = res
       /\ emitted' = {}
       /\ UNCHANGED <<conv_state, char_alive, sidecarVars, genVars, wpc, wTask, wMsg,
                      prev_active, personaVars>>

\* send_message where the wake-up of the worker is left to the 2 s tick
send_message(c, blank) ==
    /\ send_user_message(c, blank)
    /\ UNCHANGED auxVars

\* commands::message::regenerate_message + MessageService::regenerate_message,
\* for a character message with the model loaded (otherwise an error and no change)
regenerate_message(id) ==
    /\ id \in MsgIds(messages)
    /\ sidecar # Nil
    /\ Msg(messages, id).author = "character"
    /\ Len(queue) < MaxTasks
    /\ LET message == Msg(messages, id)
           ms1 == deactivate_subtree(messages, id)
       IN /\ messages' = ms1
          /\ queue' = enqueue(queue, NewTask(message.conv, message.parent))
          /\ active_message' =
                IF message.parent # Nil
                THEN update_active_message(active_message, ms1, message.conv, message.parent)
                ELSE active_message
          /\ touched' = Touch(message.conv)
    /\ Quiet
    /\ UNCHANGED <<conv_state, next_id, char_alive, sidecarVars, genVars, wpc, wTask, wMsg,
                   prev_active, personaVars, auxVars>>

\* MessageService::edit_message with non-blank content
edit_message(id) ==
    /\ id \in MsgIds(messages)
    /\ next_id <= MaxMsgs
    /\ LET original == Msg(messages, id)
           ms1 == deactivate_subtree(messages, id)
           m == NewMessage(next_id, original.conv, original.parent, original.author,
                           get_next_branch_index(ms1, original.parent, original.conv), FALSE)
           ms2 == MessageRepo_create(ms1, m)
           withTask == original.author = "user" /\ conv_state[original.conv] = "live"
       IN /\ withTask => Len(queue) < MaxTasks
          /\ messages' = ms2
          /\ active_message' = update_active_message(active_message, ms2, original.conv, m.id)
          /\ next_id' = next_id + 1
          /\ queue' = IF withTask THEN enqueue(queue, NewTask(original.conv, m.id)) ELSE queue
          /\ touched' = Touch(original.conv)
    /\ Quiet
    /\ UNCHANGED <<conv_state, char_alive, sidecarVars, genVars, wpc, wTask, wMsg,
                   prev_active, personaVars, auxVars>>

\* AppState::stop_generation: take the slot and cancel its token
stop_generation_slot ==
    /\ generating' = NoGen
    /\ cancelled' = (cancelled \/ generating # NoGen)

\* commands::message::switch_branch
switch_branch(id) ==
    /\ id \in MsgIds(messages)
    /\ stop_generation_slot
    /\ \E r \in switch_to_branch(messages, active_message, id) :
          /\ messages' = r.msgs
          /\ active_message' = r.active
    /\ touched' = Touch(Msg(messages, id).conv)
    /\ Quiet
    /\ UNCHANGED <<conv_state, next_id, queue, char_alive, sidecarVars, streams,
                   wpc, wTask, wMsg, prev_active, personaVars, auxVars>>

\* commands::message::delete_message
delete_message(id) ==
    /\ id \in MsgIds(messages)
    /\ \E r \in MessageService_delete(messages, active_message, id) :
          /\ messages' = r.msgs
          /\ active_message' = r.active
    /\ touched' = Touch(Msg(messages, id).conv)
    /\ Quiet
    /\ UNCHANGED <<conv_state, next_id, queue, char_alive, sidecarVars, genVars,
                   wpc, wTask, wMsg, prev_active, personaVars, auxVars>>

\* MessageService::stop_generation: the slot is read again after it was emptied
stop_generation ==
    /\ generating # NoGen
    /\ stop_generation_slot
    /\ queue' = IF generating' # NoGen
                THEN cancel_for_conversation(queue, generating'.conversation_id)
                ELSE queue
    /\ Quiet
    /\ UNCHANGED <<msgVars, char_alive, sidecarVars, streams, workerVars, personaVars, auxVars>>

\* CharacterService::delete (soft delete)
delete_character ==
    /\ char_alive
    /\ char_alive' = FALSE
    /\ Quiet
    /\ UNCHANGED <<msgVars, queue, sidecarVars, genVars, workerVars, personaVars, auxVars>>

\* ConversationService::delete (soft delete)
delete_conversation(c) ==
    /\ conv_state[c] = "live"
    /\ conv_state' = [conv_state EXCEPT ![c] = "deleted"]
    /\ Quiet
    /\ UNCHANGED <<messages, active_message, next_id, queue, char_alive, sidecarVars, genVars,
                   workerVars, personaVars, auxVars>>

\* commands::system::start_sidecar, when sidecar::start_sidecar returns Ok(handle)
start_sidecar ==
    /\ sidecar = Nil
    /\ sidecar' = Handle
    /\ stopped' = FALSE
    /\ Quiet
    /\ UNCHANGED <<msgVars, queue, char_alive, genVars, workerVars, personaVars, auxVars>>

\* commands::system::stop_sidecar
stop_sidecar ==
    /\ sidecar # Nil
    /\ stop_generation_slot
    /\ sidecar' = Nil
    /\ stopped' = TRUE
    /\ Quiet
    /\ UNCHANGED <<msgVars, queue, char_alive, streams, workerVars, personaVars, auxVars>>

\* --------------------------------------------------------- queue worker
Event(name, c) == [name |-> name, conv |-> c]

\* AppState::check_generation_timeout; expired: started_at is older than the timeout
check_generation_timeout(g, expired) ==
    IF g # NoGen /\ expired THEN NoGen ELSE g

\* run: the 2 s tick (timeout check first) or a Process message enters process_queue,
\* which returns at once when no handle is present
run_wake(tick, expired) ==
    /\ wpc = "idle"
    /\ sidecar # Nil
    /\ wpc' = "health"
    /\ generating' = IF tick THEN check_generation_timeout(generating, expired) ELSE generating
    /\ cancelled' = (cancelled \/ (tick /\ expired /\ generating # NoGen))
    /\ Quiet
    /\ UNCHANGED <<msgVars, queue, char_alive, sidecarVars, streams, wTask, wMsg,
                   prev_active, touched, personaVars, auxVars>>

\* process_queue from the health check's answer to the await on build_context_async
process_queue_health(healthy) ==
    /\ wpc = "health"
    /\ LET t == get_next_pending(queue)
           q1 == update_status(queue, t, "processing", NoError)
       IN IF ~healthy
          THEN /\ sidecar' = Nil
               /\ stopped' = (sidecar = Nil /\ stopped)
               /\ emitted' = {Event("model:status", NoConv)}
               /\ wpc' = "idle"
               /\ UNCHANGED <<queue, wTask>>
          ELSE IF is_generating(generating) \/ t = Nil
          THEN /\ wpc' = "idle"
               /\ emitted' = {}
               /\ UNCHANGED <<queue, wTask, sidecarVars>>
          ELSE IF ~char_alive
          THEN /\ queue' = fail_task(q1, t, {"Character", "not", "found"})
               /\ wpc' = "idle"
               /\ emitted' = {}
               /\ UNCHANGED <<wTask, sidecarVars>>
          ELSE /\ queue' = q1
               /\ wTask' = t
               /\ wpc' = "context"
               /\ emitted' = {}
               /\ UNCHANGED sidecarVars
    /\ send_result' = "none"
    /\ UNCHANGED <<msgVars, char_alive, genVars, wMsg, prev_active, touched, personaVars, auxVars>>

\* process_queue from the context's answer to the await on generate_stream
process_queue_context ==
    /\ wpc = "context"
    /\ LET task == queue[wTask]
           c == task.conv
           p == NewMessage(next_id, c, task.parent, "character",
                           get_next_branch_index(messages, task.parent, c), TRUE)
           ms1 == MessageRepo_create(messages, p)
           act1 == update_active_message(active_message, ms1, c, p.id)
           ms2 == MessageRepo_delete(ms1, p.id)
       IN IF conv_state[c] # "live"
          THEN /\ queue' = fail_task(queue, wTask, {"Failed", "to", "build", "context"})
               /\ wpc' = "idle"
               /\ wTask' = Nil
               /\ UNCHANGED <<msgVars, genVars, wMsg, prev_active, touched>>
          ELSE IF ~ParentExists(messages, task.parent)
          THEN /\ queue' = fail_task(queue, wTask, {"Failed", "to", "create", "message"})
               /\ wpc' = "idle"
               /\ wTask' = Nil
               /\ UNCHANGED <<msgVars, genVars, wMsg, prev_active, touched>>
          ELSE /\ next_id <= MaxMsgs
               /\ next_id' = next_id + 1
               /\ UNCHANGED conv_state
               /\ IF try_start_generation(generating, p.id, c) = generating
                  THEN /\ messages' = ms2
                       /\ active_message' =
                             IF task.parent # Nil
                             THEN update_active_message(SetNullActive(act1, ms2), ms2, c, task.parent)
                             ELSE SetNullActive(act1, ms2)
                       /\ queue' = update_status(queue, wTask, "pending", NoError)
                       /\ wpc' = "idle"
                       /\ wTask' = Nil
                       /\ UNCHANGED <<genVars, wMsg, prev_active, touched>>
                  ELSE /\ messages' = ms1
                       /\ active_message' = act1
                       /\ generating' = try_start_generation(generating, p.id, c)
                       /\ cancelled' = FALSE
                       /\ wMsg' = p.id
                       /\ prev_active' = active_message[c]
                       /\ touched' = FALSE
                       /\ wpc' = "opening"
                       /\ UNCHANGED <<queue, streams, wTask>>
    /\ Quiet
    /\ UNCHANGED <<char_alive, sidecarVars, personaVars, auxVars>>

\* AppState::take_sidecar followed by the spawned stop_sidecar(handle)
take_and_stop_sidecar(e) ==
    IF IsStall(e) /\ sidecar # Nil
    THEN /\ sidecar' = Nil
         /\ stopped' = TRUE
    ELSE UNCHANGED <<sidecar, stopped>>

\* finish_generation and the three arms of `match generation_result`
\* res: "ok" | "cancelled" | "error" (with its text e)
handle_generation_result(res, e, isEmpty) ==
    LET task == queue[wTask]
        c == task.conv
        ms1 == MessageRepo_delete(messages, wMsg)
        act1 == SetNullActive(active_message, ms1)
        act2 == IF task.parent # Nil
                THEN update_active_message(act1, ms1, c, task.parent)
                ELSE act1
    IN /\ generating' = finish_generation(generating)
       /\ cancelled' = FALSE
       /\ wpc' = "idle"
       /\ wMsg' = Nil
       /\ wTask' = Nil
       /\ prev_active' = Nil
       /\ touched' = FALSE
       /\ send_result' = "none"
       /\ IF res = "ok"
          THEN /\ messages' = update_content(messages, wMsg, isEmpty)
               /\ queue' = update_status(queue, wTask, "completed", NoError)
               /\ emitted' = IF wMsg \in MsgIds(messages)
                             THEN {Event("chat:complete", c)} ELSE {}
               /\ UNCHANGED <<active_message, sidecar, stopped>>
          ELSE IF res = "cancelled"
          THEN /\ messages' = ms1
               /\ active_message' = act2
               /\ queue' = update_status(queue, wTask, "cancelled", NoError)
               /\ emitted' = {}
               /\ UNCHANGED <<sidecar, stopped>>
          ELSE /\ take_and_stop_sidecar(e)
               /\ messages' = ms1
               /\ active_message' = act2
               /\ queue' = update_status(queue, wTask, "failed", e)
               /\ emitted' = {Event("chat:error", c)}

\* generate_stream returned: the request was accepted and the reader task spawned,
\* or the request failed and generate_response returns Error
process_queue_open(accepted, err) ==
    /\ wpc = "opening"
    /\ err \in ErrorTexts
    /\ IF accepted
       THEN /\ streams' = streams \cup {wTask}
            /\ wpc' = "stream"
            /\ Quiet
            /\ UNCHANGED <<messages, active_message, queue, sidecarVars, generating,
                           cancelled, wMsg, wTask, prev_active, touched>>
       ELSE /\ handle_generation_result("error", err, FALSE)
            /\ UNCHANGED streams
    /\ UNCHANGED <<conv_state, next_id, char_alive, personaVars, auxVars>>

\* the terminal events the reader task can deliver; Cancelled needs a cancelled token
TerminalEvents ==
    {"done", "error"} \cup (IF cancelled THEN {"cancelled"} ELSE {})

\* a reader task that keeps reading after its terminal event
StreamKeptOpen(ss, t) == ss

\* the reader task ends with its terminal event and the receiver is dropped when
\* generate_response returns
StreamAfterTerminal(ss, t) == ss \ {t}

\* generate_response consumed the stream's terminal event; process_queue runs to its end
process_queue_stream_end(ev, err, isEmpty) ==
    /\ wpc = "stream"
    /\ ev \in TerminalEvents
    /\ err \in ErrorTexts
    /\ isEmpty => ev = "done"
    /\ streams' = StreamAfterTerminal(streams, wTask)
    /\ handle_generation_result(IF ev = "done" THEN "ok" ELSE ev, err, isEmpty)
    /\ UNCHANGED <<conv_state, next_id, char_alive, personaVars, auxVars>>

\* ------------------------------------------------------------------ next
Next ==
    \/ \E c \in Convs, first \in BOOLEAN : create_conversation(c, first)
    \/ \E c \in Convs, blank \in BOOLEAN : send_message(c, blank)
    \/ \E id \in 1..MaxMsgs : regenerate_message(id)
    \/ \E id \in 1..MaxMsgs : edit_message(id)
    \/ \E id \in 1..MaxMsgs : switch_branch(id)
    \/ \E id \in 1..MaxMsgs : delete_message(id)
    \/ stop_generation
    \/ delete_character
    \/ \E c \in Convs : delete_conversation(c)
    \/ start_sidecar
    \/ stop_sidecar
    \/ \E tick \in BOOLEAN, expired \in BOOLEAN : run_wake(tick, expired)
    \/ \E healthy \in BOOLEAN : process_queue_health(healthy)
    \/ process_queue_context
    \/ \E accepted \in BOOLEAN, err \in ErrorTexts : process_queue_open(accepted, err)
    \/ \E ev \in {"done", "cancelled", "error"}, err \in ErrorTexts, isEmpty \in BOOLEAN :
          process_queue_stream_end(ev, err, isEmpty)

Spec == Init /\ [][Next]_vars

\* ------------------------------------------------------------- personas
\* Each db.execute takes the connection lock on its own, so the statements of
\* PersonaRepo::create and PersonaRepo::update interleave between clients;
\* PersonaRepo::set_default runs inside db.transaction.
PersonaIds == 1..MaxPersonas
NoRow == [exists |-> FALSE, is_default |-> FALSE]
Idle == [op |-> "idle", id |-> Nil]

\* the id a create in flight will insert under
Reserved == {ppc[k].id : k \in {c \in Clients : ppc[c].op = "create"}}
FreeIds == {p \in PersonaIds : ~personas[p].exists /\ p \notin Reserved}

\* UPDATE personas SET is_default = 0
unset_all(ps) == [p \in PersonaIds |-> [ps[p] EXCEPT !.is_default = FALSE]]

\* INSERT INTO personas (...)
insert_persona(ps, id, is_default) ==
    [ps EXCEPT ![id] = [exists |-> TRUE, is_default |-> is_default]]

\* UPDATE personas SET is_default = ? WHERE id = ?
update_row(ps, id, is_default) ==
    IF ps[id].exists THEN [ps EXCEPT ![id].is_default = is_default] ELSE ps

\* PersonaRepo::create up to its first statement
create_persona_begin(k, is_default) ==
    /\ ppc[k].op = "idle"
    /\ FreeIds # {}
    /\ LET id == CHOOSE p \in FreeIds : \A q \in FreeIds : p <= q
       IN IF is_default
          THEN /\ personas' = unset_all(personas)
               /\ ppc' = [ppc EXCEPT ![k] = [op |-> "create", id |-> id]]
          ELSE /\ personas' = insert_persona(personas, id, FALSE)
               /\ UNCHANGED ppc
    /\ UNCHANGED <<coreVars, auxVars>>

\* PersonaRepo::create, the INSERT of a default persona
create_persona_end(k) ==
    /\ ppc[k].op = "create"
    /\ personas' = insert_persona(personas, ppc[k].id, TRUE)
    /\ ppc' = [ppc EXCEPT ![k] = Idle]
    /\ UNCHANGED <<coreVars, auxVars>>

\* PersonaRepo::update with is_default = Some(is_default), up to its first statement
update_persona_begin(k, id, is_default) ==
    /\ ppc[k].op = "idle"
    /\ personas[id].exists
    /\ IF is_default
       THEN /\ personas' = unset_all(personas)
            /\ ppc' = [ppc EXCEPT ![k] = [op |-> "update", id |-> id]]
       ELSE /\ personas' = update_row(personas, id, FALSE)
            /\ UNCHANGED ppc
    /\ UNCHANGED <<coreVars, auxVars>>

\* PersonaRepo::update, the UPDATE of the row with is_default = true
update_persona_end(k) ==
    /\ ppc[k].op = "update"
    /\ personas' = update_row(personas, ppc[k].id, TRUE)
    /\ ppc' = [ppc EXCEPT ![k] = Idle]
    /\ UNCHANGED <<coreVars, auxVars>>

\* PersonaRepo::set_default: both statements in one transaction
set_default_persona(id) ==
    /\ personas[id].exists
    /\ personas' = update_row(unset_all(personas), id, TRUE)
    /\ UNCHANGED <<ppc, coreVars, auxVars>>

\* PersonaService::delete: refused for the default persona, else the row is
\* soft-deleted (it leaves the live rows)
delete_persona(id) ==
    /\ personas[id].exists
    /\ ~personas[id].is_default
    /\ personas' = [personas EXCEPT ![id] = NoRow]
    /\ UNCHANGED <<ppc, coreVars, auxVars>>

NextPersona ==
    \/ \E k \in Clients, d \in BOOLEAN : create_persona_begin(k, d)
    \/ \E k \in Clients : create_persona_end(k)
    \/ \E k \in Clients, id \in PersonaIds, d \in BOOLEAN : update_persona_begin(k, id, d)
    \/ \E k \in Clients : update_persona_end(k)
    \/ \E id \in PersonaIds : set_default_persona(id)
    \/ \E id \in PersonaIds : delete_persona(id)

SpecPersona == Init /\ [][NextPersona]_vars

\* ----------------------------------------------------------- properties
Processing(q) == {i \in 1..Len(q) : q[i].status = "processing"}
ActiveIds(c) == {m.id : m \in {x \in ConvMsgs(messages, c) : x.active}}
Parents == {Nil} \cup MsgIds(messages)
DefaultPersonas == {p \in PersonaIds : personas[p].exists /\ personas[p].is_default}

\* the worker step that ends a generation with the task cancelled / failed
CancelledStep ==
    wpc \in {"opening", "stream"} /\ wpc' = "idle" /\ queue'[wTask].status = "cancelled"
FailedStep ==
    wpc \in {"opening", "stream"} /\ wpc' = "idle" /\ queue'[wTask].status = "failed"

\* C1: in every reachable state at most one queue task has status = processing
C1_AtMostOneProcessing == Cardinality(Processing(queue)) <= 1

\* a task is processing while another one waits and a command has just run
C1_Witness == Processing(queue) # {} /\ Pending(queue) # {} /\ touched

\* C2: at most one generation stream is open at any time, and an open stream
\* belongs to the task the worker reserved the slot for (its placeholder exists
\* as wMsg) and is still waiting on; this also holds once stop_generation has
\* emptied the slot
C2_OneStream ==
    /\ Cardinality(streams) <= 1
    /\ \A t \in streams : wpc = "stream" /\ t = wTask /\ wMsg # Nil

\* a stream is open, the slot was emptied under it, and another task is waiting
C2_Witness == streams # {} /\ generating = NoGen /\ cancelled /\ Pending(queue) # {}

\* C3: whenever the worker is between tasks, the active messages of every
\* conversation with messages are exactly the path from active_message to the root
C3_SinglePath ==
    \A c \in Convs :
        (ConvMsgs(messages, c) # {} /\ wpc = "idle")
            => ActiveIds(c) = Ancestors(messages, active_message[c])

\* C4: every sibling group (the root group included) has at most one active member
C4_OneActiveChild ==
    \A c \in Convs, p \in Parents :
        Cardinality({m \in Group(messages, p, c) : m.active}) <= 1

\* C5: the branch_index values of every sibling group are exactly 0..n-1
C5_DenseBranchIndex ==
    \A c \in Convs, p \in Parents :
        LET g == Group(messages, p, c)
        IN {m.bidx : m \in g} = 0..(Cardinality(g) - 1)

\* C6: at most one persona is the default
C6_OneDefault == Cardinality(DefaultPersonas) <= 1

\* C7: when the generation for a message-triggered task ends Cancelled and no
\* command touched the conversation since the placeholder was created: the
\* placeholder is gone, the task is cancelled, active_message is the task's
\* parent, the triggering message exists, and messages, flags and
\* active_message are as they were just before the placeholder was created
C7_CancelRestores ==
    [][(CancelledStep /\ ~touched /\ queue[wTask].parent # Nil) =>
          LET task == queue[wTask]
          IN /\ wMsg \notin MsgIds(messages')
             /\ active_message'[task.conv] = task.parent
             /\ task.parent \in MsgIds(messages')
             /\ messages' = {m \in messages : m.id # wMsg}
             /\ active_message'[task.conv] = prev_active]_vars

\* C8: when a generation ends in an error the task is failed with the error
\* text stored, the placeholder is gone and active_message is the task's parent
C8_ErrorCleanup ==
    [][FailedStep =>
          LET task == queue[wTask]
          IN /\ queue'[wTask].error # NoError
             /\ wMsg \notin MsgIds(messages')
             /\ active_message'[task.conv] = task.parent]_vars

\* C9: a step that makes a task failed emits chat:error for the task's
\* conversation and leaves no empty message of that task
C9_FailedHasEvent ==
    [][\A i \in DOMAIN queue :
          (queue[i].status # "failed" /\ queue'[i].status = "failed")
              => /\ Event("chat:error", queue[i].conv) \in emitted'
                 /\ \A m \in messages' : m.empty => m.id # wMsg]_vars

\* C10: a failure whose text contains "stalled" or "timeout" leaves the handle
\* slot empty with termination of the taken handle started; the slot is filled
\* again only by start_sidecar; and a send_message that finds the slot empty
\* returns "model not loaded" and creates neither a message nor a task
C10_StallUnloads ==
    [][/\ (FailedStep /\ (contains(queue'[wTask].error, "stalled")
                           \/ contains(queue'[wTask].error, "timeout")))
            => (sidecar' = Nil /\ (sidecar # Nil => stopped'))
       /\ (sidecar = Nil /\ sidecar' # Nil) => start_sidecar
       /\ (sidecar = Nil /\ send_result' # "none")
            => (send_result' = "not_loaded" /\ UNCHANGED <<messages, queue>>)]_vars

\* after a stall took the handle, a send_message was refused
C10_Witness ==
    /\ sidecar = Nil
    /\ stopped
    /\ send_result = "not_loaded"
    /\ \E i \in DOMAIN queue :
          queue[i].status = "failed" /\ contains(queue[i].error, "stalled")

\* ------------------------------------------------- generation timeout
\* the generation in the slot has held it for more than GENERATION_TIMEOUT_SECS
Expired == generating # NoGen /\ gen_old = generating.message_id

\* started_at.elapsed() of the generation in the slot passes the timeout
generation_ages ==
    /\ generating # NoGen
    /\ gen_old # generating.message_id
    /\ gen_old' = generating.message_id
    /\ UNCHANGED <<coreVars, personaVars, chan, shut, snap, resp, content, spc, filterVars, moreVars>>

\* run, with the tick's check_generation_timeout reading the slot's real age
run_tick == run_wake(TRUE, Expired)
run_process == run_wake(FALSE, FALSE)

NextTimeout ==
    \/ \E c \in Convs : create_conversation(c, FALSE)
    \/ \E c \in Convs, blank \in BOOLEAN : send_message(c, blank)
    \/ start_sidecar
    \/ generation_ages
    \/ run_tick
    \/ run_process
    \/ \E healthy \in BOOLEAN : process_queue_health(healthy)
    \/ process_queue_context
    \/ \E accepted \in BOOLEAN, err \in ErrorTexts : process_queue_open(accepted, err)
    \/ \E ev \in {"done", "cancelled", "error"}, err \in ErrorTexts, isEmpty \in BOOLEAN :
          process_queue_stream_end(ev, err, isEmpty)

\* The worker task always runs on: the timer of the select fires whenever the
\* loop waits in the select, and every await inside process_queue returns,
\* except the wait on a stream that keeps delivering tokens.
SpecTimeout ==
    /\ Init
    /\ [][NextTimeout]_vars
    /\ WF_vars(run_tick)
    /\ WF_vars(\E healthy \in BOOLEAN : process_queue_health(healthy))
    /\ WF_vars(process_queue_context)
    /\ WF_vars(\E accepted \in BOOLEAN, err \in ErrorTexts : process_queue_open(accepted, err))

\* C11: a generation that has held the slot for more than 300 s is cancelled
\* and the slot released by the worker's tick, even while its stream goes on
C11_TimeoutCancels == Expired ~> (generating = NoGen)

\* ------------------------------------------------------------ shutdown
ChanCap == 1        \* capacity of the worker's channel (100 in lib.rs)

\* Sender::try_send: the message is dropped when the channel is full
try_send(ch, msg) == IF Len(ch) < ChanCap THEN Append(ch, msg) ELSE ch

\* send_message with its try_send(QueueMessage::Process), before the exit
send_message_process(c) ==
    /\ shut = "no"
    /\ send_user_message(c, FALSE)
    /\ chan' = IF send_result' = "ok" THEN try_send(chan, "Process") ELSE chan
    /\ UNCHANGED <<gen_old, shut, snap, resp, content, spc, filterVars, moreVars>>

\* RunEvent::ExitRequested: AppState::shutdown (stop_generation, notify_waiters,
\* try_send(Stop)), then take_sidecar and stop it. notify_waiters wakes the
\* worker only if it waits in the select; no permit is stored otherwise.
exit_requested ==
    /\ shut = "no"
    /\ stop_generation_slot
    /\ shut' = IF wpc = "idle" THEN "notified" ELSE "missed"
    /\ chan' = try_send(chan, "Stop")
    /\ sidecar' = Nil
    /\ stopped' = (stopped \/ sidecar # Nil)
    /\ Quiet
    /\ UNCHANGED <<msgVars, queue, char_alive, streams, workerVars, personaVars, gen_old,
                   snap, resp, content, spc, filterVars, moreVars>>

\* a select without the 2 s sleep branch: the loop wakes on the channel only
run_select_no_tick ==
    /\ wpc = "idle"
    /\ shut = "notified" \/ chan # <<>>
    /\ LET notified == shut = "notified"
           stop == ~notified /\ Head(chan) = "Stop"
       IN /\ wpc' = IF notified \/ stop THEN "exited"
                    ELSE IF sidecar # Nil THEN "health" ELSE "idle"
          /\ chan' = IF ~notified THEN Tail(chan) ELSE chan
    /\ Quiet
    /\ UNCHANGED <<msgVars, queue, char_alive, sidecarVars, genVars, wTask, wMsg,
                   prev_active, touched, personaVars, gen_old, shut, snap, resp, content, spc, filterVars, moreVars>>

\* run: one pass of the biased select: shutdown.notified(), then rx.recv(),
\* then the 2 s sleep; process_queue returns at once when no handle is present
run_select ==
    /\ wpc = "idle"
    /\ LET notified == shut = "notified"
           received == ~notified /\ chan # <<>>
           tick == ~notified /\ chan = <<>>
           stop == received /\ Head(chan) = "Stop"
       IN /\ wpc' = IF notified \/ stop THEN "exited"
                    ELSE IF sidecar # Nil THEN "health" ELSE "idle"
          /\ chan' = IF received THEN Tail(chan) ELSE chan
          /\ generating' = IF tick THEN check_generation_timeout(generating, Expired)
                           ELSE generating
          /\ cancelled' = (cancelled \/ (tick /\ Expired))
    /\ Quiet
    /\ UNCHANGED <<msgVars, queue, char_alive, sidecarVars, streams, wTask, wMsg,
                   prev_active, touched, personaVars, gen_old, shut, snap, resp, content, spc, filterVars, moreVars>>

NextShutdown ==
    \/ \E c \in Convs : create_conversation(c, FALSE)
    \/ start_sidecar
    \/ \E c \in Convs : send_message_process(c)
    \/ exit_requested
    \/ run_select
    \/ \E healthy \in BOOLEAN : process_queue_health(healthy)
    \/ process_queue_context
    \/ \E accepted \in BOOLEAN, err \in ErrorTexts : process_queue_open(accepted, err)
    \/ \E ev \in {"done", "cancelled", "error"}, err \in ErrorTexts, isEmpty \in BOOLEAN :
          process_queue_stream_end(ev, err, isEmpty)

SpecShutdown == Init /\ [][NextShutdown]_vars

\* C12: once AppState::shutdown has been called, whatever the worker was doing
\* and whatever its channel held, the worker moves no further task to processing
C12_NoTaskAfterShutdown ==
    [][shut # "no" =>
          \A i \in DOMAIN queue :
              ~(queue[i].status = "pending" /\ queue'[i].status = "processing")]_vars

\* ----------------------------------------------------- branch switching
\* MessageRepo::find_active_branch: what switch_to_branch returns
find_active_branch(ms, c) == {m \in ConvMsgs(ms, c) : m.active}

RECURSIVE GreedyDeepest(_, _)
\* the ends of the walks from cur that take a child that is active in ms, or
\* else the first child by branch_index
GreedyDeepest(ms, cur) ==
    LET children == find_children(ms, cur)
        act == {c \in children : c.active}
    IN IF children = {} THEN {cur}
       ELSE IF act # {} THEN UNION {GreedyDeepest(ms, c.id) : c \in act}
       ELSE GreedyDeepest(ms, FirstByIndex(children).id)

\* no message at or below id has two active children
OneActiveChildBelow(ms, id) ==
    \A n \in Descendants(ms, id) :
        Cardinality({k \in find_children(ms, n) : k.active}) <= 1

NextSwitch ==
    \/ \E c \in Convs, first \in BOOLEAN : create_conversation(c, first)
    \/ start_sidecar
    \/ \E c \in Convs : send_message(c, FALSE)
    \/ \E id \in 1..MaxMsgs : edit_message(id)
    \/ \E id \in 1..MaxMsgs : switch_branch(id)
    \/ run_process
    \/ \E healthy \in BOOLEAN : process_queue_health(healthy)
    \/ process_queue_context
    \/ \E accepted \in BOOLEAN, err \in ErrorTexts : process_queue_open(accepted, err)
    \/ \E ev \in {"done", "cancelled", "error"}, err \in ErrorTexts, isEmpty \in BOOLEAN :
          process_queue_stream_end(ev, err, isEmpty)

SpecSwitch == Init /\ [][NextSwitch]_vars

\* C14: a generation that switch_branch stopped (its token is cancelled) ends
\* with its task in status cancelled
C14_SwitchCancelsTask ==
    [][(wpc \in {"opening", "stream"} /\ cancelled /\ wpc' = "idle")
          => queue'[wTask].status = "cancelled"]_vars

\* ------------------------------------------------------ message deletion
\* C15: deleting a message on the active chain leaves active_message in the
\* branch of another sibling if there is one, else at the parent, else nil;
\* and active_message never names a deleted message
C15_DeleteRepoints ==
    [][\A id \in 1..MaxMsgs :
          (delete_message(id) /\ id \in Ancestors(messages, active_message[Msg(messages, id).conv]))
             => LET m == Msg(messages, id)
                    others == {s \in find_siblings(messages, id) : s.id # id}
                    act == active_message'[m.conv]
                IN /\ act \in MsgIds(messages') \cup {Nil}
                   /\ IF others # {}
                      THEN \E s \in others : act \in Descendants(messages', s.id)
                      ELSE IF m.parent # Nil THEN act = m.parent
                      ELSE act = Nil]_vars

\* ------------------------------------------- regenerate, then switch back
ActiveIn(ms, c) == {m.id : m \in find_active_branch(ms, c)}

\* the last message m of the active chain is a character message, the model is
\* loaded and the worker has nothing to do: note the conversation as it is
observe(m) ==
    /\ snap = NoSnap
    /\ m \in MsgIds(messages)
    /\ LET message == Msg(messages, m)
           c == message.conv
       IN /\ message.author = "character"
          /\ active_message[c] = m
          /\ find_children(messages, m) = {}
          /\ Ancestors(messages, m) \subseteq ActiveIn(messages, c)
          /\ conv_state[c] = "live"
          /\ snap' = [m |-> m, act |-> active_message[c],
                      chain |-> Ancestors(messages, m),
                      active |-> ActiveIn(messages, c),
                      sibs |-> {x.id : x \in find_siblings(messages, m)},
                      len |-> Len(queue)]
    /\ sidecar # Nil
    /\ wpc = "idle"
    /\ Pending(queue) = {}
    /\ Len(queue) < MaxTasks
    /\ next_id <= MaxMsgs
    /\ UNCHANGED <<coreVars, personaVars, gen_old, chan, shut, resp, content, spc, filterVars, moreVars>>

forget ==
    /\ snap # NoSnap
    /\ snap' = NoSnap
    /\ UNCHANGED <<coreVars, personaVars, gen_old, chan, shut, resp, content, spc, filterVars, moreVars>>

\* the task regenerate_message(snap.m) enqueued
RegenTask == snap.len + 1
Regenerated == snap # NoSnap /\ Len(queue) = RegenTask
RegenDone == Regenerated /\ queue[RegenTask].status = "completed"

\* one user at a time: the conversation is prepared, then regenerate_message
\* for the noted message, the worker runs the task, then switch_branch back
NextRegenerate ==
    \/ snap = NoSnap /\ \E c \in Convs, first \in BOOLEAN : create_conversation(c, first)
    \/ snap = NoSnap /\ start_sidecar
    \/ snap = NoSnap /\ \E c \in Convs : send_message(c, FALSE)
    \/ snap = NoSnap /\ \E id \in 1..MaxMsgs : edit_message(id)
    \/ \E id \in 1..MaxMsgs : observe(id)
    \/ snap # NoSnap /\ Len(queue) = snap.len /\ regenerate_message(snap.m)
    \/ RegenDone /\ switch_branch(snap.m)
    \/ forget
    \/ run_process
    \/ \E healthy \in BOOLEAN : process_queue_health(healthy)
    \/ process_queue_context
    \/ \E accepted \in BOOLEAN, err \in ErrorTexts : process_queue_open(accepted, err)
    \/ \E ev \in {"done", "cancelled", "error"}, err \in ErrorTexts, isEmpty \in BOOLEAN :
          process_queue_stream_end(ev, err, isEmpty)

SpecRegenerate == Init /\ [][NextRegenerate]_vars

\* the three steps of the scenario
RegenerateStep == snap # NoSnap /\ Len(queue) = snap.len /\ Len(queue') = RegenTask
RegenDoneStep ==
    /\ Regenerated
    /\ wTask = RegenTask
    /\ queue'[RegenTask].status = "completed"
    /\ wMsg \in MsgIds(messages')
SwitchBackStep == RegenDone /\ switch_branch(snap.m)

\* C16 as stated: regenerating the last character message m makes m and its
\* subtree inactive; when the task is done there is a new active sibling with
\* the next branch_index and find_siblings of it is exactly m and the new
\* message; switch_branch(m) then restores the active messages and active_message
C16_RegenerateRoundTrip ==
    [][LET c == Msg(messages, snap.m).conv
       IN /\ RegenerateStep =>
                \A d \in Descendants(messages, snap.m) : ~Msg(messages', d).active
          /\ RegenDoneStep =>
                LET new == Msg(messages', wMsg)
                IN /\ new.active
                   /\ new.parent = Msg(messages, snap.m).parent
                   /\ {x.id : x \in find_siblings(messages', wMsg)} = {snap.m, wMsg}
          /\ SwitchBackStep =>
                /\ active_message'[c] = snap.act
                /\ ActiveIn(messages', c) = snap.active]_vars

\* C16, amended: ... find_siblings of the new message is m's siblings and the
\* new message, whose branch_index is one more than their greatest; after
\* switch_branch(m) active_message and the chain to the root are as before,
\* all of the chain is active and nothing else has become active
C16_RegenerateRoundTrip_Amended ==
    [][LET c == Msg(messages, snap.m).conv
       IN /\ RegenerateStep =>
                \A d \in Descendants(messages, snap.m) : ~Msg(messages', d).active
          /\ RegenDoneStep =>
                LET new == Msg(messages', wMsg)
                IN /\ new.active
                   /\ new.parent = Msg(messages, snap.m).parent
                   /\ {x.id : x \in find_siblings(messages', wMsg)} = snap.sibs \cup {wMsg}
                   /\ new.bidx = 1 + SetMax({Msg(messages, x).bidx : x \in snap.sibs})
          /\ SwitchBackStep =>
                /\ active_message'[c] = snap.act
                /\ Ancestors(messages', snap.act) = snap.chain
                /\ snap.chain \subseteq ActiveIn(messages', c)
                /\ ActiveIn(messages', c) \subseteq snap.active]_vars

\* the round trip was made: the regenerated message is the last active one
\* again and the message generated in its place is its inactive sibling
C16_Witness ==
    /\ RegenDone
    /\ active_message[Msg(messages, snap.m).conv] = snap.m
    /\ \E x \in find_siblings(messages, snap.m) :
          x.id \notin snap.sibs /\ ~x.active /\ x.author = "character"

\* ------------------------------------------------- tokens of a response
MaxEvents == 2      \* chat:token events of one response before its final chunk

\* a text is the sequence of its characters
RECURSIVE Concat(_)
Concat(ss) == IF ss = <<>> THEN <<>> ELSE Head(ss) \o Concat(Tail(ss))

\* what TokenFilter::process returns for one Token event: nothing (the filter
\* buffers or discards), one visible piece, or pieces of which one is empty
FilterOutputs == {<< >>, << <<"a">> >>, << <<>>, <<"b", "c">> >>}

\* what TokenFilter::flush leaves to emit at Done: nothing, or a final chunk
FlushChunks == {<<>>, <<"d">>}

TokenEvent(t) == [name |-> "chat:token", token |-> t]
CompleteEvent == [name |-> "chat:complete", token |-> <<>>]

\* the locals of the generate_response call for the worker's placeholder
CurrentResp == IF resp.mid = wMsg THEN resp ELSE [NoResp EXCEPT !.mid = wMsg]

IsNonEmpty(v) == v # <<>>

\* generate_response reads a Token event
process_queue_stream_token(vs) ==
    /\ wpc = "stream"
    /\ LET visible == SelectSeq(vs, IsNonEmpty)
       IN /\ Len(CurrentResp.events) + Len(visible) <= MaxEvents
          /\ resp' = [mid |-> wMsg,
                      full_content |-> CurrentResp.full_content \o Concat(visible),
                      events |-> CurrentResp.events \o
                                    [i \in 1..Len(visible) |-> TokenEvent(visible[i])]]
          /\ emitted' = IF visible # <<>>
                        THEN {Event("chat:token", queue[wTask].conv)} ELSE {}
    /\ send_result' = "none"
    /\ UNCHANGED <<msgVars, queue, char_alive, sidecarVars, genVars, workerVars, personaVars,
                   gen_old, chan, shut, snap, content, spc, filterVars, moreVars>>

\* generate_response reads Done and returns Ok(full_content); process_queue
\* runs the Ok arm to its end
process_queue_stream_done(chunk) ==
    /\ wpc = "stream"
    /\ LET full == CurrentResp.full_content \o chunk
           evs == IF chunk # <<>> THEN Append(CurrentResp.events, TokenEvent(chunk))
                  ELSE CurrentResp.events
           found == wMsg \in MsgIds(messages)
       IN /\ streams' = StreamAfterTerminal(streams, wTask)
          /\ handle_generation_result("ok", NoError, full = <<>>)
          /\ content' = IF found THEN [content EXCEPT ![wMsg] = full] ELSE content
          /\ resp' = [mid |-> wMsg, full_content |-> full,
                      events |-> IF found THEN Append(evs, CompleteEvent) ELSE evs]
    /\ UNCHANGED <<conv_state, next_id, char_alive, personaVars, gen_old, chan, shut, snap, spc, filterVars, moreVars>>

NextStream ==
    \/ \E c \in Convs, first \in BOOLEAN : create_conversation(c, first)
    \/ start_sidecar
    \/ \E c \in Convs : send_message(c, FALSE)
    \/ \E id \in 1..MaxMsgs : delete_message(id)
    \/ stop_generation
    \/ run_process
    \/ \E healthy \in BOOLEAN : process_queue_health(healthy)
    \/ process_queue_context
    \/ \E accepted \in BOOLEAN, err \in ErrorTexts : process_queue_open(accepted, err)
    \/ \E vs \in FilterOutputs : process_queue_stream_token(vs)
    \/ \E chunk \in FlushChunks : process_queue_stream_done(chunk)
    \/ \E ev \in {"cancelled", "error"}, err \in ErrorTexts :
          process_queue_stream_end(ev, err, FALSE)

SpecStream == Init /\ [][NextStream]_vars

\* the payloads of the chat:token events in a sequence of events
RECURSIVE TokenPayloads(_)
TokenPayloads(evs) ==
    IF evs = <<>> THEN <<>>
    ELSE (IF Head(evs).name = "chat:token" THEN <<Head(evs).token>> ELSE <<>>)
            \o TokenPayloads(Tail(evs))

\* C17: when a stream ends with Done the content persisted for the placeholder
\* is the concatenation, in emission order, of the chat:token payloads emitted
\* for it (final chunk included), the task is completed, and exactly one
\* chat:complete is emitted for the message, after all of its chat:token events
C17_DonePersistsTokens ==
    [][(\E chunk \in FlushChunks : process_queue_stream_done(chunk)) =>
          LET evs == resp'.events
              n == Len(evs)
          IN /\ wMsg \in MsgIds(messages')
             /\ content'[wMsg] = Concat(TokenPayloads(evs))
             /\ queue'[wTask].status = "completed"
             /\ n > 0
             /\ evs[n].name = "chat:complete"
             /\ \A i \in 1..(n - 1) : evs[i].name = "chat:token"]_vars

\* ------------------------------------------------- blank message content
\* message contents as sequences of characters
SendContents == {<<>>, <<" ">>, <<" ", " ">>, <<"x">>, <<" ", "x">>, <<"x", " ">>}

RECURSIVE trim_start(_)
trim_start(s) == IF s # <<>> /\ Head(s) = " " THEN trim_start(Tail(s)) ELSE s

RECURSIVE trim_end(_)
trim_end(s) ==
    IF s # <<>> /\ s[Len(s)] = " " THEN trim_end(SubSeq(s, 1, Len(s) - 1)) ELSE s

\* a trim that removes nothing
trim_none(s) == s

\* str::trim
trim(s) == trim_end(trim_start(s))

\* send_user_message: input.content.trim().is_empty()
IsBlank(text) == trim(text) = <<>>

\* empty or made of white space only
WhitespaceOnly(text) == \A i \in 1..Len(text) : text[i] = " "

\* a step that is a send_message with content that is empty or whitespace-only
BlankSend(c) ==
    \E text \in SendContents :
        WhitespaceOnly(text) /\ send_message(c, IsBlank(text))

\* C18 as stated: in every state a send_message with empty or whitespace-only
\* content returns a Validation error and changes no message, task or active_message
C18_BlankIsValidation ==
    [][\A c \in Convs :
          BlankSend(c) =>
             /\ send_result' \in {"validation", "already_generating"}
             /\ UNCHANGED <<messages, queue, active_message>>]_vars

\* C18, amended: with the model loaded it returns a Validation error, with no
\* model loaded the "model not loaded" error; in both cases it changes no
\* message, task or active_message
C18_BlankIsRefused ==
    [][\A c \in Convs :
          BlankSend(c) =>
             /\ sidecar # Nil => send_result' \in {"validation", "already_generating"}
             /\ sidecar = Nil => send_result' = "not_loaded"
             /\ UNCHANGED <<messages, queue, active_message>>]_vars

\* a blank message was refused as invalid while a task waits for the worker
C18_Witness == send_result = "validation" /\ Pending(queue) # {}

\* ------------------------------------------- order of the pending tasks
MaxQueue == 3       \* rows inserted into message_queue
MaxSecs == 2        \* seconds of now_timestamp() that pass

\* everything but the table message_queue
notQueueVars == <<msgVars, char_alive, sidecarVars, genVars, workerVars, emitted,
                  send_result, personaVars, auxVars>>

\* QueueTask as the services build it: priority 0, created_at = now_timestamp()
QueueTask(c, secs) ==
    [conv |-> c, parent |-> Nil, status |-> "pending", error |-> NoError,
     priority |-> 0, created_at |-> secs]

\* created_at of the row inserted last
LastCreated(q) == IF q = <<>> THEN 0 ELSE q[Len(q)].created_at

\* QueueRepo::get_next_pending: the rows LIMIT 1 may return, i.e. the pending
\* rows that no pending row precedes under ORDER BY priority DESC, created_at ASC
get_next_pending_rows(q) ==
    {i \in Pending(q) :
        \A j \in Pending(q) :
            \/ q[i].priority > q[j].priority
            \/ q[i].priority = q[j].priority /\ q[i].created_at <= q[j].created_at}

\* send_user_message / regenerate_message / edit_message: QueueRepo::enqueue,
\* in the same second as the row before (later = FALSE) or in a later one
queue_enqueue(c, later) ==
    LET secs == LastCreated(queue) + (IF later THEN 1 ELSE 0)
    IN /\ Len(queue) < MaxQueue
       /\ secs <= MaxSecs
       /\ queue' = enqueue(queue, QueueTask(c, secs))
       /\ UNCHANGED notQueueVars

\* process_queue: get_next_pending, update_status(Processing); the one worker
\* takes a task only when it has finished the one before
queue_take ==
    /\ Processing(queue) = {}
    /\ \E t \in get_next_pending_rows(queue) :
          queue' = update_status(queue, t, "processing", NoError)
    /\ UNCHANGED notQueueVars

\* process_queue: the end of the task
queue_finish(status) ==
    /\ Processing(queue) # {}
    /\ \E t \in Processing(queue) :
          queue' = update_status(queue, t, status, NoError)
    /\ UNCHANGED notQueueVars

NextQueue ==
    \/ \E c \in Convs, later \in BOOLEAN : queue_enqueue(c, later)
    \/ queue_take
    \/ \E status \in {"completed", "failed", "cancelled"} : queue_finish(status)

SpecQueue == Init /\ [][NextQueue]_vars

\* C19: get_next_pending returns a pending task of the highest priority and,
\* among those, of the earliest created_at; and tasks of equal priority are
\* moved to processing in the order in which they were enqueued
C19_FifoOrder ==
    [][\A i \in DOMAIN queue :
          (queue[i].status = "pending" /\ queue'[i].status = "processing")
             => /\ i \in get_next_pending_rows(queue)
                /\ \A j \in 1..(i - 1) :
                      queue[j].priority = queue[i].priority => queue[j].status # "pending"]_vars

\* ------------------------------------------------ status of a queue task
\* MessageService::stop_generation, first statement: state.stop_generation()
\* takes the slot under the write lock and cancels its token
stop_generation_begin ==
    /\ spc = "idle"
    /\ stop_generation_slot
    /\ spc' = "read"
    /\ Quiet
    /\ UNCHANGED <<msgVars, queue, char_alive, sidecarVars, streams, workerVars, personaVars,
                   gen_old, chan, shut, snap, resp, content, filterVars, moreVars>>

\* MessageService::stop_generation, second statement: state.current_generation()
\* reads the slot under a new read lock; cancel_for_conversation if it is Some
stop_generation_end ==
    /\ spc = "read"
    /\ queue' = IF generating # NoGen
                THEN cancel_for_conversation(queue, generating.conversation_id)
                ELSE queue
    /\ spc' = "idle"
    /\ Quiet
    /\ UNCHANGED <<msgVars, char_alive, sidecarVars, genVars, workerVars, personaVars,
                   gen_old, chan, shut, snap, resp, content, filterVars, moreVars>>

\* the worker and the stop_generation command, each on its own thread of the
\* runtime; the character is never deleted, so a step writes one status at most
NextStatus ==
    \/ \E c \in Convs, first \in BOOLEAN : create_conversation(c, first)
    \/ \E c \in Convs, blank \in BOOLEAN : send_message(c, blank)
    \/ start_sidecar
    \/ \E tick \in BOOLEAN, expired \in BOOLEAN : run_wake(tick, expired)
    \/ \E healthy \in BOOLEAN : process_queue_health(healthy)
    \/ process_queue_context
    \/ \E accepted \in BOOLEAN, err \in ErrorTexts : process_queue_open(accepted, err)
    \/ \E ev \in {"done", "cancelled", "error"}, err \in ErrorTexts, isEmpty \in BOOLEAN :
          process_queue_stream_end(ev, err, isEmpty)
    \/ stop_generation_begin
    \/ stop_generation_end

SpecStatus == Init /\ [][NextStatus]_vars

\* the status changes of a task that the lifecycle allows
StatusTransitions ==
    {<<"pending", "processing">>, <<"processing", "completed">>,
     <<"processing", "failed">>, <<"pending", "cancelled">>,
     <<"processing", "cancelled">>}

\* C20: the status of a task changes only along pending->processing,
\* processing->completed, processing->failed, pending->cancelled and
\* processing->cancelled, so a completed, failed or cancelled task keeps its
\* status, however the worker interleaves with stop_generation
C20_StatusTransitions ==
    [][\A i \in DOMAIN queue :
          queue'[i].status # queue[i].status
             => <<queue[i].status, queue'[i].status>> \in StatusTransitions]_vars

\* ------------------------------------- cancel_for_conversation's effect
QueueConvs == {"c1", "c2"}
Stamps == {1, 2}        \* values of now_timestamp(); Nil is SQL NULL

\* a row of message_queue with its timestamps, as QueueRepo::enqueue inserts it
TimedTask(c) ==
    [conv |-> c, status |-> "pending", error |-> NoError,
     started_at |-> Nil, completed_at |-> Nil]

\* QueueRepo::update_status with the columns each of its three UPDATEs sets
update_status_at(q, id, status, now, err) ==
    IF status = "processing"
    THEN [q EXCEPT ![id].status = status, ![id].started_at = now]
    ELSE IF status \in {"completed", "failed", "cancelled"}
    THEN [q EXCEPT ![id].status = status, ![id].completed_at = now, ![id].error = err]
    ELSE [q EXCEPT ![id].status = status]

\* a cancel_for_conversation that forgets its WHERE conversation_id = ?2
cancel_for_conversation_all(q, c, now) ==
    [i \in 1..Len(q) |->
        IF q[i].status \in {"pending", "processing"}
        THEN [q[i] EXCEPT !.status = "cancelled", !.completed_at = now] ELSE q[i]]

\* QueueRepo::cancel_for_conversation: SET status = 'cancelled', completed_at = now
\* WHERE conversation_id = c AND status IN ('pending', 'processing')
cancel_for_conversation_at(q, c, now) ==
    [i \in 1..Len(q) |->
        IF q[i].conv = c /\ q[i].status \in {"pending", "processing"}
        THEN [q[i] EXCEPT !.status = "cancelled", !.completed_at = now] ELSE q[i]]

queue_insert(c) ==
    /\ Len(queue) < MaxQueue
    /\ queue' = enqueue(queue, TimedTask(c))
    /\ UNCHANGED notQueueVars

\* process_queue: update_status(Processing) of a pending row
queue_start(now) ==
    /\ Processing(queue) = {}
    /\ \E t \in Pending(queue) :
          queue' = update_status_at(queue, t, "processing", now, NoError)
    /\ UNCHANGED notQueueVars

\* process_queue: update_status(Completed | Cancelled | Failed) of its task
queue_end(status, now, err) ==
    /\ \E t \in Processing(queue) :
          queue' = update_status_at(queue, t, status, now,
                                    IF status = "failed" THEN err ELSE NoError)
    /\ UNCHANGED notQueueVars

\* MessageService::stop_generation reaching QueueRepo::cancel_for_conversation
queue_cancel(c, now) ==
    /\ queue' = cancel_for_conversation_at(queue, c, now)
    /\ queue' # queue
    /\ UNCHANGED notQueueVars

NextCancel ==
    \/ \E c \in QueueConvs : queue_insert(c)
    \/ \E now \in Stamps : queue_start(now)
    \/ \E status \in {"completed", "failed", "cancelled"}, now \in Stamps :
          queue_end(status, now, {"LLM", "error"})
    \/ \E c \in QueueConvs, now \in Stamps : queue_cancel(c, now)

SpecCancel == Init /\ [][NextCancel]_vars

NonTerminal(q, c) == {i \in DOMAIN q : q[i].conv = c /\ q[i].status \in {"pending", "processing"}}

\* C21: cancel_for_conversation(cid) sets every pending or processing task of
\* cid to cancelled, changes no field of those tasks other than status, leaves
\* terminal tasks and tasks of other conversations unchanged, deletes no row
C21_CancelFrame ==
    [][\A c \in QueueConvs, now \in Stamps :
          queue_cancel(c, now) =>
             /\ Len(queue') = Len(queue)
             /\ \A i \in DOMAIN queue :
                   queue'[i] = IF i \in NonTerminal(queue, c)
                               THEN [queue[i] EXCEPT !.status = "cancelled"]
                               ELSE queue[i]]_vars

\* C21 (amended): as above, but completed_at of the cancelled tasks is set to
\* the time of the call; no other field of them changes
C21_CancelFrame_Amended ==
    [][\A c \in QueueConvs, now \in Stamps :
          queue_cancel(c, now) =>
             /\ Len(queue') = Len(queue)
             /\ \A i \in DOMAIN queue :
                   queue'[i] = IF i \in NonTerminal(queue, c)
                               THEN [queue[i] EXCEPT !.status = "cancelled",
                                                     !.completed_at = now]
                               ELSE queue[i]]_vars

\* a task cancelled in bulk (cancelled before it was started, which only
\* cancel_for_conversation does) beside a pending task of the other conversation
\* and a failed task of its own
C21_Witness ==
    \E i, j, k \in DOMAIN queue :
        /\ queue[i].status = "cancelled" /\ queue[i].started_at = Nil
        /\ queue[i].completed_at # Nil
        /\ queue[j].conv # queue[i].conv /\ queue[j].status = "pending"
        /\ queue[k].conv = queue[i].conv /\ queue[k].status = "failed"

\* ------------------------------------------------------- output filter
\* texts are sequences of characters
Take(s, n) == SubSeq(s, 1, n)
Drop(s, n) == SubSeq(s, n + 1, Len(s))
starts_with(s, p) == Len(p) <= Len(s) /\ Take(s, Len(p)) = p
ends_with(s, p) == Len(p) <= Len(s) /\ Drop(s, Len(s) - Len(p)) = p
SetMin(S) == CHOOSE x \in S : \A y \in S : x <= y

\* str::find: the byte offset of the first match, or None
NotFound == -1
find(s, p) ==
    LET hits == {i \in 0..(Len(s) - Len(p)) : SubSeq(s, i + 1, i + Len(p)) = p}
    IN IF hits = {} THEN NotFound ELSE SetMin(hits)

thinking_open == <<"<", "t", "h", "i", "n", "k", "i", "n", "g", ">">>
thinking_close == <<"<", "/", "t", "h", "i", "n", "k", "i", "n", "g", ">">>
response_open == <<"<", "R", "E", "S", "P", "O", "N", "S", "E", ">">>
response_close == <<"<", "/", "R", "E", "S", "P", "O", "N", "S", "E", ">">>

character_name == <<"A">>
Scenario == <<"S", "c", "e", "n", "a", "r", "i", "o", ":">>
leakage_markers ==
    {Scenario,
     <<"S", "y", "s", "t", "e", "m", ":">>,
     <<"Y", "o", "u", " ", "a", "r", "e", " ">> \o character_name,
     character_name \o <<"\n">> \o Scenario}
char_dialogue == character_name \o <<":", " ">>
char_action == character_name \o <<":", " ", "*">>

\* the longest proper prefix of tag that the buffer ends with (0: none)
keep_len(buffer, tag) ==
    LET ks == {i \in 1..(Len(tag) - 1) : ends_with(buffer, Take(tag, i))}
    IN IF ks = {} THEN 0 ELSE SetMax(ks)

\* TokenFilter::has_partial_tag
has_partial_tag(buffer) ==
    keep_len(buffer, thinking_open) > 0 \/ keep_len(buffer, response_open) > 0

\* a pushed piece of output; left: the length of the buffer it was cut from the
\* front of, which places the piece in the raw stream
Chunk(text, buffer) == [text |-> text, left |-> Len(buffer)]

\* process, the cleaning of a leaked system prompt in the neutral state
clean_leakage(f) ==
    IF /\ ~f.in_thinking_block
       /\ ~f.in_response_block
       /\ Len(f.buffer) > 20
       /\ \E marker \in leakage_markers : starts_with(trim_start(f.buffer), marker)
    THEN LET char_pos == find(f.buffer, char_dialogue)
             char_action_pos == find(f.buffer, char_action)
         IN IF char_pos # NotFound
            THEN [f EXCEPT !.buffer = Drop(f.buffer, char_pos + Len(char_dialogue)),
                           !.in_response_block = TRUE]
            ELSE IF char_action_pos # NotFound
            THEN [f EXCEPT !.buffer = Drop(f.buffer, char_action_pos + Len(char_action)),
                           !.in_response_block = TRUE]
            ELSE f
    ELSE f

\* TokenFilter::handle_thinking_start
handle_thinking_start(f, start_idx) ==
    [f EXCEPT !.buffer = Drop(f.buffer, start_idx + 10), !.in_thinking_block = TRUE]

\* TokenFilter::handle_response_start
handle_response_start(f, start_idx) ==
    [f EXCEPT !.buffer = Drop(f.buffer, start_idx + 10), !.in_response_block = TRUE]

\* TokenFilter::process, the loop after the token was pushed to the buffer;
\* loop_count: the passes made so far
RECURSIVE process_loop(_, _, _)
process_loop(f0, output, loop_count) ==
    IF loop_count + 1 > 1000
    THEN [filter |-> [f0 EXCEPT !.buffer = <<>>],
          output |-> Append(output, Chunk(f0.buffer, f0.buffer))]
    ELSE IF f0.buffer = <<>>
    THEN [filter |-> f0, output |-> output]
    ELSE
    LET f == clean_leakage(f0)
        buffer == f.buffer
    IN IF f.in_thinking_block
       THEN LET end_idx == find(buffer, thinking_close)
                keep == keep_len(buffer, thinking_close)
            IN IF end_idx # NotFound
               THEN process_loop([f EXCEPT !.buffer = Drop(buffer, end_idx + 11),
                                           !.in_thinking_block = FALSE],
                                 output, loop_count + 1)
               ELSE [filter |-> [f EXCEPT !.buffer = Drop(buffer, Len(buffer) - keep)],
                     output |-> output]
       ELSE IF f.in_response_block
       THEN LET end_idx == find(buffer, response_close)
                keep == keep_len(buffer, response_close)
                emit_len == Len(buffer) - keep
            IN IF end_idx # NotFound
               THEN process_loop([f EXCEPT !.buffer = Drop(buffer, end_idx + 11),
                                           !.in_response_block = FALSE],
                                 IF end_idx > 0
                                 THEN Append(output, Chunk(Take(buffer, end_idx), buffer))
                                 ELSE output,
                                 loop_count + 1)
               ELSE IF emit_len > 0
               THEN [filter |-> [f EXCEPT !.buffer = Drop(buffer, emit_len)],
                     output |-> Append(output, Chunk(Take(buffer, emit_len), buffer))]
               ELSE [filter |-> f, output |-> output]
       ELSE LET think_idx == find(buffer, thinking_open)
                response_idx == find(buffer, response_open)
            IN IF think_idx # NotFound /\ (response_idx = NotFound \/ think_idx < response_idx)
               THEN process_loop(handle_thinking_start(f, think_idx), output, loop_count + 1)
               ELSE IF response_idx # NotFound
               THEN process_loop(handle_response_start(f, response_idx), output, loop_count + 1)
               ELSE IF has_partial_tag(buffer)
               THEN [filter |-> f, output |-> output]
               ELSE IF Len(buffer) > 1000
               THEN process_loop([f EXCEPT !.buffer = <<>>, !.in_response_block = TRUE],
                                 Append(output, Chunk(buffer, buffer)), loop_count + 1)
               ELSE [filter |-> f, output |-> output]

\* TokenFilter::process
process(f, token) == process_loop([f EXCEPT !.buffer = f.buffer \o token], <<>>, 0)

\* TokenFilter::flush: the filter it leaves and the Option<String> it returns
flush(f) ==
    IF f.in_thinking_block
    THEN [filter |-> f, output |-> <<>>]
    ELSE IF f.in_response_block \/ f.buffer # <<>>
    THEN [filter |-> [f EXCEPT !.buffer = <<>>],
          output |-> IF f.buffer = <<>> THEN <<>> ELSE <<Chunk(f.buffer, f.buffer)>>]
    ELSE [filter |-> f, output |-> <<>>]

\* the positions of the raw stream (of length n when the pieces were pushed)
\* that the pieces of output show
Positions(output, n) ==
    UNION {(n - output[i].left + 1)..(n - output[i].left + Len(output[i].text)) :
           i \in DOMAIN output}

\* raw streams: up to MaxUnits pieces, each a tag, a letter or a lone "<";
\* and streams that begin like a repeated system prompt
MaxUnits == 4
Units == {thinking_open, thinking_close, response_open, response_close, <<"a">>, <<"<">>}
RECURSIVE UnitStreams(_)
UnitStreams(n) ==
    IF n = 0 THEN {<<>>}
    ELSE LET shorter == UnitStreams(n - 1)
         IN shorter \cup {s \o u : s \in shorter, u \in Units}
Padding == <<" ", "b", "b", "b", "b", "b", "b", "b", "b", "b", "\n">>
LeakStreams == {Scenario \o Padding \o char_dialogue \o s : s \in UnitStreams(1)}
Streams == (UnitStreams(MaxUnits) \ {<<>>}) \cup LeakStreams

\* generate_response: TokenFilter::new, and the stream the model will produce
generate_response_new(stream) ==
    /\ fed.phase = "none"
    /\ token_filter' = TokenFilter_new
    /\ fed' = [todo |-> stream, raw |-> <<>>, shown |-> {}, phase |-> "open"]
    /\ UNCHANGED <<coreVars, personaVars, gen_old, chan, shut, snap, resp, content, spc,
                   moreVars>>

\* generate_response, a Token event carrying the next n characters
filter_process(n) ==
    /\ fed.phase = "open"
    /\ n \in 1..Len(fed.todo)
    /\ LET token == Take(fed.todo, n)
           r == process(token_filter, token)
           raw == fed.raw \o token
       IN /\ token_filter' = r.filter
          /\ fed' = [fed EXCEPT !.todo = Drop(fed.todo, n),
                                !.raw = raw,
                                !.shown = fed.shown \cup Positions(r.output, Len(raw))]
    /\ UNCHANGED <<coreVars, personaVars, gen_old, chan, shut, snap, resp, content, spc,
                   moreVars>>

\* generate_response, the Done event (the stream may end anywhere: max_tokens)
filter_flush ==
    /\ fed.phase = "open"
    /\ LET r == flush(token_filter)
       IN /\ token_filter' = r.filter
          /\ fed' = [fed EXCEPT !.phase = "flushed",
                                !.shown = fed.shown \cup Positions(r.output, Len(fed.raw))]
    /\ UNCHANGED <<coreVars, personaVars, gen_old, chan, shut, snap, resp, content, spc,
                   moreVars>>

MaxToken == 12      \* characters in one Token event

NextFilter ==
    \/ \E stream \in Streams : generate_response_new(stream)
    \/ \E n \in 1..MaxToken : filter_process(n)
    \/ filter_flush

SpecFilter == Init /\ [][NextFilter]_vars

Tags == {thinking_open, thinking_close, response_open, response_close}
TagPrefixes == {Take(tag, i) : tag \in Tags, i \in 1..10} \ Tags

\* the last n positions of the raw stream
Tail_(n) == (Len(fed.raw) - n + 1)..Len(fed.raw)

\* C22: whenever the tail of the input fed so far is a proper prefix of
\* <thinking>, </thinking>, <RESPONSE> or </RESPONSE>, that tail has not been
\* emitted as visible text, in every filter state and after flush
C22_NoPartialTag ==
    \A p \in TagPrefixes :
        ends_with(fed.raw, p) => Tail_(Len(p)) \cap fed.shown = {}

\* the positions of s, from offset `from` on, that lie between a <thinking> and
\* the first </thinking> after it, the two tags included
RECURSIVE ThinkingBytes(_, _)
ThinkingBytes(s, from) ==
    LET a == find(Drop(s, from), thinking_open)
        b == find(Drop(s, from + a + 10), thinking_close)
        end == from + a + 10 + b + 11
    IN IF a = NotFound \/ b = NotFound THEN {}
       ELSE ((from + a + 1)..end) \cup ThinkingBytes(s, end)

\* C23: no byte between a <thinking> and its matching </thinking> in the raw
\* stream, the tags included, is ever part of the visible output, wherever the
\* block lies and however the stream is split into tokens
C23_ThinkingHidden == ThinkingBytes(fed.raw, 0) \cap fed.shown = {}

\* the first <RESPONSE> of s and the first </RESPONSE> after it
HasBracket(s) ==
    /\ find(s, response_open) # NotFound
    /\ find(Drop(s, find(s, response_open) + 10), response_close) # NotFound
InsideBracket(s) ==
    LET a == find(s, response_open)
        b == find(Drop(s, a + 10), response_close)
    IN (a + 10 + 1)..(a + 10 + b)

\* C24: when the raw stream contains a <RESPONSE>...</RESPONSE> bracket, only
\* bytes inside the bracket are emitted, and after flush the visible output
\* is exactly those bytes
C24_OnlyTheBracket ==
    HasBracket(fed.raw) =>
        /\ fed.shown \subseteq InsideBracket(fed.raw)
        /\ fed.phase = "flushed" => fed.shown = InsideBracket(fed.raw)

\* ------------------------------------------------------ context builder
MaxChain == 3       \* messages on the active branch
MaxCount == 2       \* largest token_count of a message
MaxBudget == 4      \* largest max_tokens (B)

\* what find_active_branch returns: the message ids 1..n in its order, each
\* with its token_count
Chains ==
    UNION {[1..n -> [token_count : 0..MaxCount]] : n \in 0..MaxChain}
ChainMessage(chain, i) == [id |-> i, token_count |-> chain[i].token_count]

RECURSIVE SumTokens(_)
SumTokens(ms) == IF ms = <<>> THEN 0 ELSE Head(ms).token_count + SumTokens(Tail(ms))

\* a reverse that leaves the order as it is
reverse_none(s) == s

\* Vec::reverse
reverse(s) == [i \in 1..Len(s) |-> s[Len(s) - i + 1]]

\* build_context, `for msg in messages.iter().rev()`: i is the message looked
\* at, history and history_tokens the locals
RECURSIVE history_walk(_, _, _, _, _)
history_walk(msgs, i, available, history, history_tokens) ==
    IF i = 0 \/ history_tokens + msgs[i].token_count > available
    THEN [history |-> history, history_tokens |-> history_tokens]
    ELSE history_walk(msgs, i - 1, available, Append(history, msgs[i]),
                      history_tokens + msgs[i].token_count)

\* MemoryService::build_context from `let available` on; sys_tokens is
\* estimate_tokens(final_system)
build_context(msgs, max_tokens, sys_tokens, response_reserve) ==
    LET available == max_tokens - sys_tokens - response_reserve
        w == history_walk(msgs, Len(msgs), available, <<>>, 0)
    IN [messages |-> reverse(w.history), total_tokens |-> sys_tokens + w.history_tokens]

\* a call of build_context on a conversation
build_context_call(chain, max_tokens, sys_tokens, response_reserve) ==
    /\ ~ctx.built
    /\ LET msgs == [i \in DOMAIN chain |-> ChainMessage(chain, i)]
           r == build_context(msgs, max_tokens, sys_tokens, response_reserve)
       IN ctx' = [messages |-> msgs, max_tokens |-> max_tokens, sys_tokens |-> sys_tokens,
                  response_reserve |-> response_reserve,
                  history |-> r.messages, total_tokens |-> r.total_tokens, built |-> TRUE]
    /\ UNCHANGED <<coreVars, personaVars, gen_old, chan, shut, snap, resp, content, spc,
                   filterVars, reader, storeVars, lateVars>>

\* estimate_tokens of the system prompt, which is never empty, is 1 at least
NextContext ==
    \E chain \in Chains, max_tokens \in 0..MaxBudget, sys_tokens \in 1..2,
       response_reserve \in 0..1 :
        build_context_call(chain, max_tokens, sys_tokens, response_reserve)

SpecContext == Init /\ [][NextContext]_vars

Available == ctx.max_tokens - ctx.sys_tokens - ctx.response_reserve
Selected == Len(ctx.history)
Offered == Len(ctx.messages)

\* C25: the history is a contiguous suffix of the active chain, in its order
\* and of whole messages, whose token counts sum to no more than available and
\* which the next older message would push over available; total_tokens is
\* tokens(system_prompt) plus that sum
C25_HistoryFits ==
    ctx.built =>
        /\ Selected <= Offered
        /\ ctx.history = SubSeq(ctx.messages, Offered - Selected + 1, Offered)
        /\ SumTokens(ctx.history) <= Available
        /\ Selected < Offered =>
              SumTokens(ctx.history) + ctx.messages[Offered - Selected].token_count > Available
        /\ ctx.total_tokens = ctx.sys_tokens + SumTokens(ctx.history)

\* C25 (amended): as above when available is not negative; when the system
\* prompt and the reserve alone exceed B the history is empty
C25_HistoryFits_Amended ==
    ctx.built =>
        /\ Selected <= Offered
        /\ ctx.history = SubSeq(ctx.messages, Offered - Selected + 1, Offered)
        /\ Available >= 0 => SumTokens(ctx.history) <= Available
        /\ Available < 0 => ctx.history = <<>>
        /\ Selected < Offered =>
              SumTokens(ctx.history) + ctx.messages[Offered - Selected].token_count > Available
        /\ ctx.total_tokens = ctx.sys_tokens + SumTokens(ctx.history)

\* two messages were selected and an older one was left out
C25_Witness ==
    /\ ctx.built
    /\ Selected = 2
    /\ Offered = 3
    /\ ctx.history[1].token_count # ctx.history[2].token_count

\* -------------------------------------------------------- stream reader
\* the response body as a sequence of lines and line feeds "NL"; the lines are
\*   "T": data: {"choices":[{"delta":{"content":"x"}}]}
\*   "F": data: {"choices":[{"delta":{},"finish_reason":"stop"}]}
\*   "D": data: [DONE]
\*   "G": data: followed by text that is no JSON
\*   "C": a line that does not start with "data: "
\* reader.handled lists the lines the reader has handled, reader.sent the
\* events it has sent, reader.tx those not yet received
MaxFrames == 3
Lines == {"T", "F", "D", "G", "C"}
Frames == {<<l, "NL", "NL">> : l \in Lines} \cup {<<"T", "NL", "D", "NL", "NL">>}
RECURSIVE Wires(_)
Wires(n) ==
    IF n = 0 THEN {<<>>}
    ELSE LET shorter == Wires(n - 1)
         IN shorter \cup {w \o f : w \in shorter, f \in Frames}

\* buffer.windows(2).position(|w| w == b"\n\n")
position(buffer) == find(buffer, <<"NL", "NL">>)

\* str::lines of an event's text
RECURSIVE lines(_)
lines(text) ==
    LET nl == find(text, <<"NL">>)
    IN IF text = <<>> THEN <<>>
       ELSE IF nl = NotFound THEN text
       ELSE Take(text, nl) \o lines(Drop(text, nl + 1))

\* the `while let Some(pos)` loop: the lines of the complete events in the
\* buffer, in order, and the bytes left in it
RECURSIVE drain(_, _)
drain(buffer, ls) ==
    LET pos == position(buffer)
    IN IF pos = NotFound THEN [buffer |-> buffer, lines |-> ls]
       ELSE drain(Drop(buffer, pos + 2), ls \o lines(Take(buffer, pos)))

\* a reader that takes [DONE] for an empty data line
on_line_no_sentinel(l) ==
    IF l = "T" THEN [send |-> <<"Token">>, return |-> FALSE]
    ELSE IF l = "F" THEN [send |-> <<"Done">>, return |-> TRUE]
    ELSE [send |-> <<>>, return |-> FALSE]

\* a reader that goes on reading after a finish_reason
on_line_no_return(l) ==
    IF l = "D" THEN [send |-> <<"Done">>, return |-> TRUE]
    ELSE IF l = "T" THEN [send |-> <<"Token">>, return |-> FALSE]
    ELSE IF l = "F" THEN [send |-> <<"Done">>, return |-> FALSE]
    ELSE [send |-> <<>>, return |-> FALSE]

\* the body of `for line in event_str.lines()`: the event sent and whether the
\* task returns
on_line(l) ==
    IF l = "D" THEN [send |-> <<"Done">>, return |-> TRUE]
    ELSE IF l = "T" THEN [send |-> <<"Token">>, return |-> FALSE]
    ELSE IF l = "F" THEN [send |-> <<"Done">>, return |-> TRUE]
    ELSE [send |-> <<>>, return |-> FALSE]

Send(r, evs) == [r EXCEPT !.tx = r.tx \o evs, !.sent = r.sent \o evs]

readerFrame == <<coreVars, personaVars, gen_old, chan, shut, snap, resp, content, spc,
                 filterVars, ctx, storeVars, lateVars>>

\* generate_stream: the request was accepted and the reader task is spawned
generate_stream_spawn(wire) ==
    /\ reader.phase = "none"
    /\ reader' = [NoReader EXCEPT !.phase = "reading", !.wire = wire]
    /\ UNCHANGED readerFrame

\* the reader's select, at the top of its loop: the cancelled token first, else
\* what stream.next() gives within 15 s: a chunk of n bytes, the end of the
\* body, an error (decoding or other), or nothing
reader_select(n, result) ==
    /\ reader.phase = "reading"
    /\ reader.lines = <<>>
    /\ IF reader.cancelled
       THEN reader' = [Send(reader, <<"Cancelled">>) EXCEPT !.phase = "ended"]
       ELSE IF result = "chunk"
       THEN /\ n \in 1..Len(reader.wire)
            /\ LET d == drain(reader.buffer \o Take(reader.wire, n), <<>>)
               IN reader' = [reader EXCEPT !.wire = Drop(reader.wire, n),
                                           !.buffer = d.buffer, !.lines = d.lines]
       ELSE IF result = "end"
       THEN /\ reader.wire = <<>>
            /\ reader' = [Send(reader, <<"Done">>) EXCEPT !.phase = "ended"]
       ELSE IF result = "decoding" /\ reader.token_count > 0
       THEN reader' = [Send(reader, <<"Done">>) EXCEPT !.phase = "ended"]
       ELSE reader' = [Send(reader, <<"Error">>) EXCEPT !.phase = "ended"]
    /\ UNCHANGED readerFrame

\* the reader handles the next line of the chunk it has read
reader_line ==
    /\ reader.phase = "reading"
    /\ reader.lines # <<>>
    /\ LET l == Head(reader.lines)
           o == on_line(l)
       IN reader' = [Send(reader, o.send) EXCEPT
                        !.lines = Tail(reader.lines),
                        !.handled = Append(reader.handled, l),
                        !.token_count = reader.token_count + (IF l = "T" THEN 1 ELSE 0),
                        !.phase = IF o.return THEN "ended" ELSE "reading"]
    /\ UNCHANGED readerFrame

\* AppState::stop_generation or check_generation_timeout cancels the token
\* while the reader task runs
cancel_token_cancel ==
    /\ reader.phase = "reading"
    /\ ~reader.cancelled
    /\ reader' = [reader EXCEPT !.cancelled = TRUE]
    /\ UNCHANGED readerFrame

\* generate_response: stream.recv() and the arm of its match
generate_response_recv ==
    /\ reader.outcome = "none"
    /\ reader.tx # <<>>
    /\ LET event == Head(reader.tx)
       IN reader' = [reader EXCEPT
                        !.tx = Tail(reader.tx),
                        !.outcome = IF event = "Token" THEN "none"
                                    ELSE IF event = "Done" THEN "ok"
                                    ELSE IF event = "Cancelled" THEN "cancelled"
                                    ELSE "error"]
    /\ UNCHANGED readerFrame

NextReader ==
    \/ \E wire \in Wires(MaxFrames) : generate_stream_spawn(wire)
    \/ \E n \in 1..5, result \in {"chunk", "end", "decoding", "error", "stall"} :
          reader_select(n, result)
    \/ reader_line
    \/ cancel_token_cancel
    \/ generate_response_recv

SpecReader == Init /\ [][NextReader]_vars

\* a step in which the reader handles a `data: [DONE]` line
ReadsSentinel ==
    /\ reader.phase = "reading"
    /\ reader.lines # <<>>
    /\ Head(reader.lines) = "D"
    /\ reader'.handled = Append(reader.handled, "D")

\* C26: the reader emits Done as soon as it reads a [DONE] data line, whether
\* or not a frame carried a finish_reason, and emits no event after a Done
C26_DoneAtSentinel ==
    /\ [][ReadsSentinel => /\ reader'.sent = Append(reader.sent, "Done")
                           /\ reader'.phase = "ended"]_vars
    /\ [](\A i \in DOMAIN reader.sent : reader.sent[i] = "Done" => i = Len(reader.sent))

\* the stream ended by its sentinel after a token: the wire had no finish_reason
C26_Witness ==
    /\ reader.phase = "ended"
    /\ reader.handled = <<"T", "D">>
    /\ reader.sent = <<"Token", "Done">>
    /\ ~reader.cancelled

\* C27: once the token is cancelled while the stream is open the reader reads
\* no further chunk, the terminal event it emits is Cancelled, never Done or
\* Error, and generate_response returns Cancelled
C27_CancelledIsTerminal ==
    /\ [][(reader.cancelled /\ reader.phase = "reading") =>
             /\ reader'.wire = reader.wire
             /\ reader'.phase = "ended" => reader'.sent = Append(reader.sent, "Cancelled")]_vars
    /\ []((reader.cancelled /\ reader.outcome # "none") => reader.outcome = "cancelled")

Terminal == {"Done", "Cancelled", "Error"}

\* the reader task is scheduled by the runtime and every turn of its loop ends
\* within the 15 s of its timeout; generate_response polls its receiver
SpecReaderFair ==
    /\ SpecReader
    /\ WF_vars(\E n \in 1..5, result \in {"chunk", "end", "decoding", "error", "stall"} :
                  reader_select(n, result))
    /\ WF_vars(reader_line)
    /\ WF_vars(generate_response_recv)

\* no event follows a terminal one, a reader task that has ended has sent one,
\* and generate_response receives the events in the order sent
OneTerminal ==
    /\ \A i \in DOMAIN reader.sent : reader.sent[i] \in Terminal => i = Len(reader.sent)
    /\ reader.phase = "ended" =>
          (reader.sent # <<>> /\ reader.sent[Len(reader.sent)] \in Terminal)
    /\ reader.phase = "reading" => \A i \in DOMAIN reader.sent : reader.sent[i] = "Token"
    /\ \E k \in 0..Len(reader.sent) : reader.tx = Drop(reader.sent, k)
    /\ reader.outcome # "none" => (reader.phase = "ended" /\ reader.tx = <<>>)

\* C37: every stream delivers one terminal event, Done, Cancelled or Error, and
\* no Token after it, whatever the chunks, lines, errors, stalls and
\* cancellations are
C37_OneTerminal ==
    /\ []OneTerminal
    /\ (reader.phase = "reading") ~> (reader.outcome # "none")

\* the 15 s stall after two tokens, the Error received by generate_response
C37_Witness ==
    /\ reader.phase = "ended"
    /\ reader.sent = <<"Token", "Token", "Error">>
    /\ reader.wire # <<>>
    /\ reader.outcome = "error"

\* ------------------------------------------------------- memory extractor
\* a text is a sequence of words, ":" being a word of its own; a pattern is
\* found where its words are found (matches inside a word are left out)
lower_word(w) ==
    CASE w = "User" -> "user" [] w = "World" -> "world" [] w = "Is" -> "is" [] OTHER -> w
to_lowercase(s) == [i \in DOMAIN s |-> lower_word(s[i])]
str_contains(s, p) == find(s, p) # NotFound

\* str::len, in bytes: the words, and a blank before every word but ":" and the first
bytes(w) ==
    CASE w \in {":"} -> 1
      [] w \in {"Is", "is", "in", "25", "30", "Hm"} -> 2
      [] w \in {"old", "now"} -> 3
      [] w \in {"User", "user", "aged", "Rome"} -> 4
      [] OTHER -> 5
RECURSIVE len(_)
len(s) ==
    IF s = <<>> THEN 0
    ELSE len(Take(s, Len(s) - 1)) + bytes(s[Len(s)])
         + (IF Len(s) > 1 /\ s[Len(s)] # ":" THEN 1 ELSE 0)

\* s.split(':').next()
split_next(s) == IF str_contains(s, <<":">>) THEN Take(s, find(s, <<":">>)) ELSE s
\* s.split(':').skip(1).collect().join(":")
split_skip(s) == IF str_contains(s, <<":">>) THEN Drop(s, find(s, <<":">>) + 1) ELSE <<>>

age_pattern_words == {<<"years", "old">>, <<"year", "old">>, <<"aged">>, <<"is", "age">>}
name_words == {<<"name", "is">>}
location_words == {<<"is", "from">>, <<"lives", "in">>, <<"located", "in">>, <<"from", "the">>}
job_words == {<<"works", "as">>, <<"job", "is">>, <<"profession", "is">>, <<"works", "at">>,
              <<"employed", "as">>}
rel_words == {<<"married">>, <<"single">>, <<"dating">>, <<"in", "a", "relationship">>,
              <<"engaged">>}
PatternGroups == {age_pattern_words, name_words, location_words, job_words, rel_words}
any_contains(words, s) == \E p \in words : str_contains(s, p)

is_contradicting_fact_never(existing, new) == FALSE

is_contradicting_fact(existing, new) ==
    LET existing_cat == split_next(existing)
        new_cat == split_next(new)
        existing_content == to_lowercase(split_skip(existing))
        new_content == to_lowercase(split_skip(new))
        existing_lower == to_lowercase(existing)
        new_lower == to_lowercase(new)
        legacy == existing_content = <<>>
        check_existing == IF legacy THEN existing_lower ELSE existing_content
        check_new == IF legacy THEN new_lower ELSE new_content
    IN /\ existing_cat = new_cat
       /\ \/ ~legacy
          \/ starts_with(existing_lower, <<"user">>) /\ starts_with(new_lower, <<"user">>)
       /\ \E g \in PatternGroups :
             /\ any_contains(g, check_existing)
             /\ any_contains(g, check_new)
             /\ check_existing # check_new

MaxMemories == 2
MaxFacts == 2
FetchLimit == 100
Importances == {5, 8}
Facts ==
    {<<"User", ":", "Is", "25", "years", "old">>,
     <<"User", ":", "Is", "30", "years", "old">>,
     <<"User", ":", "Is", "25", "years", "old", "now">>,
     <<"User", ":", "aged", "30">>,
     <<"World", ":", "Is", "30", "years", "old">>,
     <<"User", ":", "lives", "in", "Rome">>,
     <<"Hm">>}
Batches == UNION {[1..n -> Facts] : n \in 1..MaxFacts}

\* ORDER BY importance DESC, created_at DESC
Before(a, b) ==
    \/ a.importance > b.importance
    \/ a.importance = b.importance /\ a.created_at >= b.created_at
\* get_for_character: every answer the query can give, rows of equal keys in any order
get_for_character(rows, limit) ==
    LET n == Len(rows)
        k == IF n < limit THEN n ELSE limit
        perms == {p \in [1..n -> 1..n] : \A i, j \in 1..n : i # j => p[i] # p[j]}
        sorted == {p \in perms : \A i, j \in 1..n : i < j => Before(rows[p[i]], rows[p[j]])}
    IN {[i \in 1..k |-> rows[p[i]]] : p \in sorted}

\* MemoryService::create
create(m, text, importance) ==
    [m EXCEPT !.rows = Append(m.rows, [id |-> Len(m.rows) + 1, content |-> text,
                                       importance |-> importance, created_at |-> m.now]),
              !.inserted = m.inserted + 1]
\* MemoryService::update
update(m, id, new_content) ==
    [m EXCEPT !.rows = [i \in DOMAIN m.rows |->
                           IF m.rows[i].id = id THEN [m.rows[i] EXCEPT !.content = new_content]
                           ELSE m.rows[i]],
              !.updated = m.updated \cup {id}]

RECURSIVE first_match(_, _, _)
\* the inner loop of process_message: the first fetched memory that ends it
first_match(existing, k, new_lower) ==
    IF k > Len(existing) THEN [kind |-> "none", id |-> Nil]
    ELSE LET existing_lower == to_lowercase(existing[k].content)
         IN IF str_contains(existing_lower, new_lower) \/ str_contains(new_lower, existing_lower)
            THEN [kind |-> "duplicate", id |-> existing[k].id]
            ELSE IF is_contradicting_fact(existing_lower, new_lower)
            THEN [kind |-> "contradiction", id |-> existing[k].id]
            ELSE first_match(existing, k + 1, new_lower)

\* the body of the loop 'facts
process_fact(m, existing, fact) ==
    IF fact = <<>> \/ len(fact) < 5 THEN m
    ELSE LET hit == first_match(existing, 1, to_lowercase(fact))
         IN CASE hit.kind = "duplicate" -> m
              [] hit.kind = "contradiction" -> update(m, hit.id, fact)
              [] OTHER -> create(m, fact, 5)

RECURSIVE process_facts(_, _, _)
process_facts(m, existing, facts) ==
    IF facts = <<>> THEN m
    ELSE process_facts(process_fact(m, existing, Head(facts)), existing, Tail(facts))

memoryFrame == <<coreVars, personaVars, gen_old, chan, shut, snap, resp, content, spc,
                 filterVars, ctx, reader, summaries, downloads, lateVars>>

\* a memory is created by hand; tick: the clock's second has passed since the last one
memory_create(text, importance, tick) ==
    /\ memory.calls = 0
    /\ Len(memory.rows) < MaxMemories
    /\ memory' = [create([memory EXCEPT !.now = memory.now + tick], text, importance)
                     EXCEPT !.inserted = 0]
    /\ UNCHANGED memoryFrame

\* process_message on a message of 15 bytes or more, the model having answered facts
process_message(facts, existing) ==
    /\ memory.calls = 0
    /\ existing \in get_for_character(memory.rows, FetchLimit)
    /\ LET start == [memory EXCEPT !.now = memory.now + 1]
       IN memory' = [process_facts(start, existing, facts)
                        EXCEPT !.calls = 1, !.facts = facts, !.existing = existing,
                               !.start = start]
    /\ UNCHANGED memoryFrame

NextMemory ==
    \/ \E text \in Facts, importance \in Importances, tick \in {0, 1} :
          memory_create(text, importance, tick)
    \/ \E facts \in Batches :
          \E existing \in get_for_character(memory.rows, FetchLimit) :
             process_message(facts, existing)

SpecMemory == Init /\ [][NextMemory]_vars

\* the claim's case: same category prefix, one subject pattern matched by both, other content
SameSubject(old, new) ==
    /\ str_contains(old, <<":">>) /\ str_contains(new, <<":">>)
    /\ split_next(to_lowercase(old)) = split_next(to_lowercase(new))
    /\ \E g \in PatternGroups :
          any_contains(g, to_lowercase(old)) /\ any_contains(g, to_lowercase(new))
    /\ to_lowercase(old) # to_lowercase(new)
Duplicate(old, new) ==
    \/ str_contains(to_lowercase(old), to_lowercase(new))
    \/ str_contains(to_lowercase(new), to_lowercase(old))

\* the memories just before and just after the i-th fact of the call is handled
BeforeFact(i) == process_facts(memory.start, memory.existing, Take(memory.facts, i - 1)).rows
AfterFact(i) == process_facts(memory.start, memory.existing, Take(memory.facts, i)).rows

\* C28: a fact of the same category and subject pattern as a memory
\* of the character, with other content, is written into that memory in place
\* and no row is inserted for it, so the number of memories is unchanged
C28_UpdatedInPlace ==
    memory.calls = 1 =>
       \A i \in DOMAIN memory.facts :
          \A id \in DOMAIN BeforeFact(i) :
             SameSubject(BeforeFact(i)[id].content, memory.facts[i]) =>
                /\ AfterFact(i)[id].content = memory.facts[i]
                /\ Len(AfterFact(i)) = Len(BeforeFact(i))

\* the k-th memory read is the first that is a near-duplicate of the fact or
\* has its category and subject pattern with other content
Decides(k, fact) ==
    /\ \/ Duplicate(memory.existing[k].content, fact)
       \/ SameSubject(memory.existing[k].content, fact)
    /\ \A j \in 1..(k - 1) :
          /\ ~Duplicate(memory.existing[j].content, fact)
          /\ ~SameSubject(memory.existing[j].content, fact)

\* what process_message does do: among the memories read at the start of the
\* call, in their order, the first one that is a near-duplicate of the fact or has its
\* category and subject pattern with other content decides: if it is not a
\* near-duplicate, the fact is written into it in place and nothing else
\* changes; in both cases no row is inserted for the fact
UpdatedInPlaceOfSnapshot ==
    memory.calls = 1 =>
       /\ memory.rows = AfterFact(Len(memory.facts))
       /\ \A i \in DOMAIN memory.facts :
             \A k \in DOMAIN memory.existing :
                (len(memory.facts[i]) >= 5 /\ Decides(k, memory.facts[i])) =>
                   LET before == BeforeFact(i)
                       after == AfterFact(i)
                       old == memory.existing[k]
                   IN /\ Len(after) = Len(before)
                      /\ Duplicate(old.content, memory.facts[i]) => after = before
                      /\ ~Duplicate(old.content, memory.facts[i]) =>
                            /\ after[old.id].content = memory.facts[i]
                            /\ \A id \in DOMAIN before :
                                  id # old.id => after[id] = before[id]

UpdatedInPlaceReached ==
    /\ memory.calls = 1
    /\ memory.facts = <<<<"User", ":", "Is", "30", "years", "old">>>>
    /\ Len(memory.start.rows) = 2
    /\ memory.start.rows[1].content = <<"User", ":", "Is", "25", "years", "old">>
    /\ memory.updated = {1}
    /\ memory.inserted = 0
    /\ Len(memory.rows) = 2
    /\ memory.rows[1].content = <<"User", ":", "Is", "30", "years", "old">>
    /\ memory.rows[2].content = <<"World", ":", "Is", "30", "years", "old">>

\* ------------------------------------------------------------- summarizer
\* the active chain of one conversation only grows here: message i is the i-th
\* of the chain, and summaries.chain[i] is its token_count
MaxTurns == 5
message_threshold == 20
token_threshold == 4000
summary_budget == 10000
keep_recent == 5
MessageTokens == {10, 1000}
SummaryTokens == {100, 200}

RECURSIVE order_by_created_at_desc(_)
order_by_created_at_desc(rows) ==
    IF rows = {} THEN <<>>
    ELSE LET r == CHOOSE x \in rows : \A y \in rows : x.created_at >= y.created_at
         IN <<r>> \o order_by_created_at_desc(rows \ {r})

RECURSIVE within_budget(_, _, _)
\* the loop of get_for_conversation: summaries are taken until one does not fit
within_budget(rows, used_tokens, token_budget) ==
    IF rows = <<>> \/ used_tokens + Head(rows).token_count > token_budget THEN <<>>
    ELSE <<Head(rows)>> \o within_budget(Tail(rows), used_tokens + Head(rows).token_count,
                                         token_budget)

get_for_conversation_newest_first(rows, token_budget) ==
    within_budget(order_by_created_at_desc({rows[i] : i \in DOMAIN rows}), 0, token_budget)

\* SummaryService::get_for_conversation: the result is reversed before it is returned
get_for_conversation(rows, token_budget) ==
    reverse(get_for_conversation_newest_first(rows, token_budget))

\* messages.iter().filter(..): the ids of the chain after last_id, none if it is not there
after_last(chain, last_id) == {i \in DOMAIN chain : \E j \in DOMAIN chain : j = last_id /\ j < i}

\* maybe_summarize up to its decision: the ids to summarize, {} for Ok(None)
to_summarize(chain, rows) ==
    LET existing_summaries == get_for_conversation(rows, summary_budget)
        last_summarized_id ==
            IF existing_summaries = <<>> THEN Nil ELSE existing_summaries[1].message_range_end
        unsummarized ==
            IF last_summarized_id # Nil THEN after_last(chain, last_summarized_id)
            ELSE DOMAIN chain
        n == Cardinality(unsummarized)
        total_tokens == SumTokens([i \in 1..n |-> [token_count |-> chain[Len(chain) - n + i]]])
    IN IF n < message_threshold /\ total_tokens < token_threshold THEN {}
       ELSE IF n <= keep_recent THEN {}
       ELSE {i \in unsummarized : i <= Len(chain) - keep_recent}

summaryFrame == <<coreVars, personaVars, gen_old, chan, shut, snap, resp, content, spc,
                  filterVars, ctx, reader, memory, downloads, lateVars>>

\* a turn is completed: the user's message and the character's answer join the chain
turn_complete(user_tokens, answer_tokens) ==
    /\ Len(summaries.chain) < 2 * MaxTurns
    /\ summaries' = [summaries EXCEPT
                        !.chain = summaries.chain \o <<user_tokens, answer_tokens>>,
                        !.now = summaries.now + 1,
                        !.spawned = summaries.spawned + 1]
    /\ UNCHANGED summaryFrame

\* one of the maybe_summarize tasks spawned by the completed turns runs; Ok(None)
\* where nothing is to summarize
maybe_summarize(token_count) ==
    /\ summaries.spawned > 0
    /\ LET ids == to_summarize(summaries.chain, summaries.rows)
       IN IF ids = {} THEN summaries' = [summaries EXCEPT !.spawned = summaries.spawned - 1]
          ELSE summaries' = [summaries EXCEPT
                   !.spawned = summaries.spawned - 1,
                   !.rows = Append(summaries.rows,
                               [message_range_start |-> SetMin(ids),
                                message_range_end |-> SetMax(ids),
                                message_count |-> Cardinality(ids),
                                token_count |-> token_count,
                                created_at |-> summaries.now]),
                   !.now = summaries.now + 1]
    /\ UNCHANGED summaryFrame

NextSummary ==
    \/ \E user_tokens \in MessageTokens, answer_tokens \in MessageTokens :
          turn_complete(user_tokens, answer_tokens)
    \/ \E token_count \in SummaryTokens : maybe_summarize(token_count)

SpecSummary == Init /\ [][NextSummary]_vars

Covered(s) == s.message_range_start .. s.message_range_end

\* C29: a run of maybe_summarize takes its messages from after the range end of
\* the most recently created summary, and no message of the chain is covered by
\* two summaries
C29_NoMessageTwice ==
    /\ [][\A token_count \in SummaryTokens :
             (maybe_summarize(token_count) /\ Len(summaries'.rows) > Len(summaries.rows)
                /\ summaries.rows # <<>>) =>
                   summaries'.rows[Len(summaries'.rows)].message_range_start
                      > summaries.rows[Len(summaries.rows)].message_range_end]_vars
    /\ [](\A i, j \in DOMAIN summaries.rows :
             i # j => Covered(summaries.rows[i]) \cap Covered(summaries.rows[j]) = {})

\* ------------------------------------------------------------- downloads
\* one row of table downloads, the worker's channel and flag, and one
\* process_download task at a time
MaxChunks == 2
DownloadChanCap == 2    \* capacity of download_tx (100 in lib.rs)
ErrorText == "Stream error"

download_try_send(d, msg) ==
    IF Len(d.chan) < DownloadChanCap THEN [d EXCEPT !.chan = Append(d.chan, msg)] ELSE d
\* DownloadRepo::update_status
download_update_status(d, status, error) ==
    [d EXCEPT !.status = status, !.error_message = error]

downloadFrame == <<coreVars, personaVars, gen_old, chan, shut, snap, resp, content, spc,
                   filterVars, ctx, reader, memory, summaries, lateVars>>

\* DownloadService::start
download_start ==
    /\ downloads.status = "none"
    /\ downloads' = download_try_send(download_update_status(downloads, "pending", Nil), "Start")
    /\ UNCHANGED downloadFrame

\* DownloadService::pause
download_pause ==
    /\ downloads.status # "none"
    /\ downloads' = download_try_send(download_update_status(downloads, "paused", Nil), "Pause")
    /\ UNCHANGED downloadFrame

\* DownloadService::resume
download_resume ==
    /\ downloads.status # "none"
    /\ downloads' = download_try_send(download_update_status(downloads, "pending", Nil), "Resume")
    /\ UNCHANGED downloadFrame

\* DownloadService::cancel
download_cancel ==
    /\ downloads.status # "none"
    /\ downloads' = download_try_send(download_update_status(downloads, "cancelled", Nil), "Cancel")
    /\ UNCHANGED downloadFrame

\* run: one message is received; Start and Resume spawn process_download
download_run_recv ==
    /\ downloads.chan # <<>>
    /\ LET msg == Head(downloads.chan)
           d == [downloads EXCEPT !.chan = Tail(downloads.chan)]
       IN IF msg \in {"Start", "Resume"}
          THEN /\ downloads.pc = "none"
               /\ downloads' = [d EXCEPT !.cancel_flag = FALSE, !.pc = "begin"]
          ELSE downloads' = [d EXCEPT !.cancel_flag = TRUE]
    /\ UNCHANGED downloadFrame

\* process_download up to do_download: the row is read and set to downloading
process_download_begin ==
    /\ downloads.pc = "begin"
    /\ downloads' = [download_update_status(downloads, "downloading", Nil)
                        EXCEPT !.pc = "request", !.chunks = 0]
    /\ UNCHANGED downloadFrame

\* process_download's arm Err(e)
download_failed(d) ==
    [download_update_status(d, "failed", ErrorText) EXCEPT !.pc = "none"]

\* do_download: the request is answered and the file is created or opened
do_download_request(ok) ==
    /\ downloads.pc = "request"
    /\ downloads' = IF ok THEN [downloads EXCEPT !.file = TRUE, !.pc = "stream"]
                    ELSE download_failed(downloads)
    /\ UNCHANGED downloadFrame

\* do_download: one turn of the loop over the chunks, the chunk being Ok or Err
do_download_chunk(ok) ==
    /\ downloads.pc = "stream"
    /\ downloads.chunks < MaxChunks
    /\ downloads' =
          IF downloads.cancel_flag /\ downloads.status = "paused"
          THEN [downloads EXCEPT !.pc = "none"]
          ELSE IF downloads.cancel_flag /\ downloads.status = "cancelled"
          THEN [downloads EXCEPT !.pc = "none", !.file = FALSE]
          ELSE IF ok THEN [downloads EXCEPT !.chunks = downloads.chunks + 1]
          ELSE download_failed(downloads)
    /\ UNCHANGED downloadFrame

\* do_download: the stream has ended; the checksum, if any, is verified
do_download_end(checksum_ok) ==
    /\ downloads.pc = "stream"
    /\ downloads' =
          IF checksum_ok
          THEN [download_update_status(downloads, "completed", Nil) EXCEPT !.pc = "none"]
          ELSE [download_failed(downloads) EXCEPT !.file = FALSE]
    /\ UNCHANGED downloadFrame

\* the application is started again: run begins with check_stale_downloads
download_run_start(stale) ==
    /\ downloads.status # "none"
    /\ LET d == [downloads EXCEPT !.chan = <<>>, !.cancel_flag = FALSE, !.pc = "none",
                                  !.chunks = 0]
       IN downloads' = IF downloads.status = "downloading" /\ stale
                       THEN download_update_status(d, "pending", Nil)
                       ELSE d
    /\ UNCHANGED downloadFrame

NextDownload ==
    \/ download_start
    \/ download_pause
    \/ download_resume
    \/ download_cancel
    \/ download_run_recv
    \/ process_download_begin
    \/ \E ok \in BOOLEAN : do_download_request(ok)
    \/ \E ok \in BOOLEAN : do_download_chunk(ok)
    \/ \E checksum_ok \in BOOLEAN : do_download_end(checksum_ok)
    \/ \E stale \in BOOLEAN : download_run_start(stale)

SpecDownload == Init /\ [][NextDownload]_vars

\* C30: a failed row stays failed with its error message; a cancelled row is
\* never moved to pending, downloading or completed, and once the worker has
\* nothing left to do for it its partial file is gone
C30_FailedAndCancelledStay ==
    /\ [][downloads.status = "failed" =>
             /\ downloads'.status = "failed"
             /\ downloads'.error_message = downloads.error_message]_vars
    /\ [][downloads.status = "cancelled" =>
             downloads'.status \notin {"pending", "downloading", "completed"}]_vars
    /\ []((downloads.status = "cancelled" /\ downloads.pc = "none" /\ downloads.chan = <<>>)
             => ~downloads.file)

\* ------------------------------------------------------- slot reservation
\* process_queue is the only caller of try_start_generation in the repository;
\* the race the function is written for needs a second caller of AppState
Other == MaxMsgs + 1

\* another task calls AppState::try_start_generation
other_try_start_generation ==
    /\ generating' = try_start_generation(generating, Other, NoConv)
    /\ cancelled' = (generating # NoGen /\ cancelled)
    /\ Quiet
    /\ UNCHANGED <<msgVars, queue, char_alive, sidecarVars, streams, workerVars, personaVars,
                   auxVars>>

\* and calls AppState::finish_generation when it is done
other_finish_generation ==
    /\ generating # NoGen
    /\ generating.message_id = Other
    /\ generating' = finish_generation(generating)
    /\ cancelled' = FALSE
    /\ Quiet
    /\ UNCHANGED <<msgVars, queue, char_alive, sidecarVars, streams, workerVars, personaVars,
                   auxVars>>

NextReserve ==
    \/ \E c \in Convs, first \in BOOLEAN : create_conversation(c, first)
    \/ \E c \in Convs, blank \in BOOLEAN : send_message(c, blank)
    \/ \E id \in 1..MaxMsgs : regenerate_message(id)
    \/ start_sidecar
    \/ \E tick \in BOOLEAN, expired \in BOOLEAN : run_wake(tick, expired)
    \/ \E healthy \in BOOLEAN : process_queue_health(healthy)
    \/ process_queue_context
    \/ \E accepted \in BOOLEAN, err \in ErrorTexts : process_queue_open(accepted, err)
    \/ \E ev \in {"done", "cancelled", "error"}, err \in ErrorTexts, isEmpty \in BOOLEAN :
          process_queue_stream_end(ev, err, isEmpty)
    \/ other_try_start_generation
    \/ other_finish_generation

SpecReserve == Init /\ [][NextReserve]_vars

\* process_queue arrives at try_start_generation: the placeholder is about to be created
AtReservation ==
    /\ wpc = "context"
    /\ conv_state[queue[wTask].conv] = "live"
    /\ ParentExists(messages, queue[wTask].parent)

\* C31: try_start_generation takes an empty slot and leaves an occupied one as
\* it is; where it fails, the placeholder is gone again, active_message is the
\* task's parent_message and the task is pending, nothing else being changed
C31_ReserveOrRevert ==
    /\ [][(AtReservation /\ process_queue_context) =>
             IF generating = NoGen
             THEN /\ generating' = [message_id |-> next_id,
                                    conversation_id |-> queue[wTask].conv]
                  /\ wpc' = "opening"
             ELSE /\ generating' = generating
                  /\ messages' = messages
                  /\ active_message' =
                        [active_message EXCEPT ![queue[wTask].conv] = queue[wTask].parent]
                  /\ queue' = [queue EXCEPT ![wTask].status = "pending"]
                  /\ get_next_pending(queue') # Nil
                  /\ wpc' = "idle"]_vars
    /\ [][other_try_start_generation =>
             IF generating = NoGen THEN generating'.message_id = Other
             ELSE generating' = generating]_vars

C31_Witness ==
    /\ generating # NoGen
    /\ generating.message_id = Other
    /\ wpc = "idle"
    /\ Len(queue) = 1
    /\ queue[1].status = "pending"
    /\ next_id > 1
    /\ (next_id - 1) \notin MsgIds(messages)
    /\ active_message["c1"] = queue[1].parent

\* ------------------------------------------------------------------ jobs of a finished turn
\* process_queue's Ok arm spawns one summarizer for the conversation and one memory
\* extractor for the task's parent message (when it has one) and one for the answer;
\* a job records the result and the slot it was spawned under

\* jobs spawned whatever the generation's result
spawn_jobs_always(res, t, parent, mid, slot) ==
    {[kind |-> "summarizer", task |-> t, msg |-> Nil, result |-> res, slot |-> slot,
      state |-> "spawned"],
     [kind |-> "extractor", task |-> t, msg |-> mid, result |-> res, slot |-> slot,
      state |-> "spawned"]}

spawn_jobs(res, t, parent, mid, slot) ==
    IF res = "ok"
    THEN {[kind |-> "summarizer", task |-> t, msg |-> Nil, result |-> res, slot |-> slot,
           state |-> "spawned"]}
         \cup {[kind |-> "extractor", task |-> t, msg |-> m, result |-> res, slot |-> slot,
                state |-> "spawned"] : m \in {parent, mid} \ {Nil}}
    ELSE {}

\* generate_response returned; process_queue runs to its end, spawned jobs included
process_queue_stream_end_jobs(ev, err, isEmpty) ==
    /\ wpc = "stream"
    /\ ev \in TerminalEvents
    /\ err \in ErrorTexts
    /\ isEmpty => ev = "done"
    /\ streams' = StreamAfterTerminal(streams, wTask)
    /\ handle_generation_result(IF ev = "done" THEN "ok" ELSE ev, err, isEmpty)
    /\ jobs' = jobs \cup spawn_jobs(IF ev = "done" THEN "ok" ELSE ev, wTask,
                                    queue[wTask].parent, wMsg, generating')
    /\ UNCHANGED <<conv_state, next_id, char_alive, personaVars, gen_old, chan, shut, snap,
                   resp, content, spc, filterVars, ctx, reader, storeVars, procs>>

\* generate_stream failed to open: the Error arm, which spawns nothing
process_queue_open_jobs(accepted, err) ==
    /\ wpc = "opening"
    /\ err \in ErrorTexts
    /\ IF accepted
       THEN /\ streams' = streams \cup {wTask}
            /\ wpc' = "stream"
            /\ Quiet
            /\ UNCHANGED <<messages, active_message, queue, sidecarVars, generating,
                           cancelled, wMsg, wTask, prev_active, touched, jobs>>
       ELSE /\ handle_generation_result("error", err, FALSE)
            /\ jobs' = jobs \cup spawn_jobs("error", wTask, queue[wTask].parent, wMsg,
                                            generating')
            /\ UNCHANGED streams
    /\ UNCHANGED <<conv_state, next_id, char_alive, personaVars, gen_old, chan, shut, snap,
                   resp, content, spc, filterVars, ctx, reader, storeVars, procs>>

\* a spawned job runs to its end: maybe_summarize or process_message returns Ok or
\* Err, and an Err is logged; an extractor whose message is gone does nothing
job_run(j, ok) ==
    /\ j \in jobs
    /\ j.state = "spawned"
    /\ jobs' = (jobs \ {j}) \cup
                  {[j EXCEPT !.state =
                        IF j.kind = "extractor" /\ j.msg \notin MsgIds(messages)
                        THEN "skipped"
                        ELSE IF ok THEN "done" ELSE "failed"]}
    /\ Quiet
    /\ UNCHANGED <<msgVars, queue, char_alive, sidecarVars, genVars, workerVars, personaVars,
                   gen_old, chan, shut, snap, resp, content, spc, filterVars, ctx, reader,
                   storeVars, procs>>

NextJobs ==
    \/ \E c \in Convs, first \in BOOLEAN : create_conversation(c, first)
    \/ \E c \in Convs : send_message(c, FALSE)
    \/ stop_generation
    \/ start_sidecar
    \/ \E tick \in BOOLEAN, expired \in BOOLEAN : run_wake(tick, expired)
    \/ \E healthy \in BOOLEAN : process_queue_health(healthy)
    \/ process_queue_context
    \/ \E accepted \in BOOLEAN, err \in ErrorTexts : process_queue_open_jobs(accepted, err)
    \/ \E ev \in {"done", "cancelled", "error"}, err \in ErrorTexts :
          process_queue_stream_end_jobs(ev, err, FALSE)
    \/ \E j \in jobs, ok \in BOOLEAN : job_run(j, ok)

SpecJobs == Init /\ [][NextJobs]_vars

\* every job was spawned under a Done result with the slot already released, and
\* belongs to a task that is completed
JobsOfDoneTurns ==
    \A j \in jobs :
        /\ j.result = "ok"
        /\ j.slot = NoGen
        /\ queue[j.task].status = "completed"

\* C32: summarizer and extractor jobs of a turn are started only after the
\* turn's generation ended with Done and the slot was released, never for a
\* cancelled or failed generation, and a job's end, failure included, changes
\* neither a task's status nor a message
C32_JobsAfterDone ==
    /\ []JobsOfDoneTurns
    /\ [][jobs' \ jobs # {} /\ (\A j \in jobs' \ jobs : j.state = "spawned")
            => /\ wpc = "stream"
               /\ generating' = NoGen
               /\ queue[wTask].status = "processing"
               /\ queue'[wTask].status = "completed"
               /\ \A j \in jobs' \ jobs : j.task = wTask]_vars
    /\ [][(\E j \in jobs, ok \in BOOLEAN : job_run(j, ok))
            => UNCHANGED <<queue, messages, content>>]_vars

C32_Witness ==
    /\ \E j \in jobs : j.kind = "summarizer" /\ j.state = "failed"
    /\ \E j \in jobs : j.kind = "extractor" /\ j.state = "failed"
                          /\ queue[j.task].status = "completed"
                          /\ j.msg \in MsgIds(messages)
                          /\ generating = NoGen

\* ------------------------------------------------------------------ watchdog
\* the worker is at the health check of an iteration
AtHealthCheck == wpc = "health"

\* C33: the health check of a worker iteration runs only while no generation
\* is active, and when it fails the handle is removed from shared state, a
\* model:status event is emitted, and the iteration returns with every task's
\* status and every message as they were
C33_Watchdog ==
    /\ [](AtHealthCheck => ~is_generating(generating) /\ streams = {})
    /\ [][process_queue_health(FALSE)
            => /\ sidecar' = Nil
               /\ emitted' = {Event("model:status", NoConv)}
               /\ wpc' = "idle"
               /\ ~is_generating(generating')
               /\ UNCHANGED <<queue, messages, active_message>>]_vars

\* the check failed with a task pending and the handle present
C33_Witness ==
    /\ wpc = "idle"
    /\ sidecar = Nil
    /\ ~stopped
    /\ emitted = {Event("model:status", NoConv)}
    /\ get_next_pending(queue) # Nil

\* ------------------------------------------------------------------ draining the queue
\* process_queue_context where the store takes no further message: creating the
\* placeholder fails and the task is failed with "Failed to create message"
process_queue_context_create ==
    IF /\ wpc = "context"
       /\ next_id > MaxMsgs
       /\ conv_state[queue[wTask].conv] = "live"
       /\ ParentExists(messages, queue[wTask].parent)
    THEN /\ queue' = fail_task(queue, wTask, {"Failed", "to", "create", "message"})
         /\ wpc' = "idle"
         /\ wTask' = Nil
         /\ Quiet
         /\ UNCHANGED <<msgVars, genVars, wMsg, prev_active, touched, char_alive, sidecarVars,
                        personaVars, auxVars>>
    ELSE process_queue_context

\* the errors after which the worker keeps the inference handle
OtherErrors == {e \in ErrorTexts : ~IsStall(e)}

\* the inference process stays present and healthy (no stall, no failed health
\* check, no stop), the application is not shut down, commands send and stop,
\* and the worker loop runs
NextDrain ==
    \/ \E c \in Convs : create_conversation(c, FALSE)
    \/ start_sidecar
    \/ \E c \in Convs : send_message_process(c)
    \/ stop_generation
    \/ run_select
    \/ process_queue_health(TRUE)
    \/ process_queue_context_create
    \/ \E accepted \in BOOLEAN, err \in OtherErrors : process_queue_open(accepted, err)
    \/ \E ev \in {"done", "cancelled", "error"}, err \in OtherErrors :
          process_queue_stream_end(ev, err, FALSE)

\* The worker loop always runs on: the select returns (its sleep fires after
\* 2 s when nothing else does), every await inside process_queue returns, and
\* every opened stream yields a terminal event.
SpecDrain ==
    /\ Init
    /\ [][NextDrain]_vars
    /\ WF_vars(run_select)
    /\ WF_vars(process_queue_health(TRUE))
    /\ WF_vars(process_queue_context_create)
    /\ WF_vars(\E accepted \in BOOLEAN, err \in OtherErrors : process_queue_open(accepted, err))
    /\ WF_vars(\E ev \in {"done", "cancelled", "error"}, err \in OtherErrors :
                  process_queue_stream_end(ev, err, FALSE))

TerminalStatus == {"completed", "failed", "cancelled"}

\* C34: with the inference process present and healthy and every stream ending,
\* under weak fairness of the worker loop every task inserted as pending reaches
\* completed, failed or cancelled, also when the Process message of its enqueue
\* was dropped by the full channel
C34_PendingDrains ==
    \A i \in 1..MaxTasks :
        (i \in DOMAIN queue /\ queue[i].status = "pending")
            ~> (i \in DOMAIN queue /\ queue[i].status \in TerminalStatus)

\* two accepted sends while the worker waits in the select: both tasks are
\* pending and the full channel holds one Process message, the other was dropped
C34_Witness ==
    /\ wpc = "idle"
    /\ Len(queue) = 2
    /\ \A i \in 1..2 : queue[i].status = "pending"
    /\ chan = <<"Process">>
    /\ Len(chan) = ChanCap

\* ------------------------------------------------------------------ release of the slot
\* Commands and the worker, where generate_stream returns and every opened
\* stream ends: with Done or a closed channel (generate_response returns Ok
\* for both), with Cancelled or with Error.
NextRelease ==
    \/ \E c \in Convs, first \in BOOLEAN : create_conversation(c, first)
    \/ \E c \in Convs : send_message(c, FALSE)
    \/ \E id \in 1..MaxMsgs : regenerate_message(id)
    \/ \E id \in 1..MaxMsgs : switch_branch(id)
    \/ stop_generation
    \/ start_sidecar
    \/ stop_sidecar
    \/ \E tick \in BOOLEAN, expired \in BOOLEAN : run_wake(tick, expired)
    \/ \E healthy \in BOOLEAN : process_queue_health(healthy)
    \/ process_queue_context
    \/ \E accepted \in BOOLEAN, err \in ErrorTexts : process_queue_open(accepted, err)
    \/ \E ev \in {"done", "cancelled", "error"}, err \in ErrorTexts, isEmpty \in BOOLEAN :
          process_queue_stream_end(ev, err, isEmpty)

SpecRelease ==
    /\ Init
    /\ [][NextRelease]_vars
    /\ WF_vars(\E accepted \in BOOLEAN, err \in ErrorTexts : process_queue_open(accepted, err))
    /\ WF_vars(\E ev \in {"done", "cancelled", "error"}, err \in ErrorTexts, isEmpty \in BOOLEAN :
                  process_queue_stream_end(ev, err, isEmpty))

\* process_queue holds a reservation it made and has not yet passed finish_generation
HoldsReservation == wpc \in {"opening", "stream"}

\* the reservation process_queue made for its placeholder
OwnReservation == [message_id |-> wMsg, conversation_id |-> queue[wTask].conv]

\* C35: an occupied slot is eventually released: every process_queue that
\* reserved it reaches finish_generation, however its stream ends or fails to
\* open, and finish_generation only ever clears that execution's own
\* reservation or a slot already empty, never a later generation's
C35_SlotReleased ==
    /\ (generating # NoGen) ~> (generating = NoGen)
    /\ HoldsReservation ~> (wpc = "idle" /\ generating = NoGen)
    /\ [][HoldsReservation /\ ~HoldsReservation'
            => /\ generating \in {NoGen, OwnReservation}
               /\ generating' = NoGen]_vars

\* the stream ended with Error while the slot still held the reservation
C35_Witness ==
    /\ wpc = "idle"
    /\ generating = NoGen
    /\ \E i \in DOMAIN queue : queue[i].status = "failed" /\ contains(queue[i].error, "LLM")
    /\ \E i \in DOMAIN queue : queue[i].status = "completed"

\* ------------------------------------------------------------------ slot and stream
\* C36: the slot is occupied exactly while the worker is between its
\* reservation and the end of that stream: it then names the placeholder of
\* the one processing task, which exists in the slot's conversation, and it is
\* empty at every other time
C36_SlotWhileStreaming ==
    /\ HoldsReservation =>
          /\ is_generating(generating)
          /\ generating = OwnReservation
          /\ queue[wTask].status = "processing"
          /\ wMsg \in MsgIds(messages)
          /\ Msg(messages, wMsg).conv = generating.conversation_id
    /\ is_generating(generating) => HoldsReservation

\* ------------------------------------------------------------------ sends during a generation
\* the user messages of conversation c
UserMessages(ms, c) == {m \in ms : m.conv = c /\ m.author = "user"}

\* C38: while the worker is between creating a placeholder and the end of its
\* Done, Cancelled or Error handling, send_message is rejected for that
\* conversation, also after stop_generation has emptied the slot; and the
\* worker's cleanup deletes no user message of the conversation and leaves
\* none without an existing parent
C38_SendRejectedUntilCleanup ==
    /\ [](HoldsReservation /\ sidecar # Nil /\ conv_state[queue[wTask].conv] = "live"
            => SendResult(queue[wTask].conv, FALSE) = "already_generating")
    /\ [][HoldsReservation /\ ~HoldsReservation'
            => \A m \in UserMessages(messages, queue[wTask].conv) :
                  /\ m \in messages'
                  /\ ParentExists(messages', m.parent)]_vars

\* ------------------------------------------------------------------ switch, then cleanup
\* switch_branch stopped the generation the worker still holds
SwitchedAway == HoldsReservation /\ cancelled

\* the commands of one conversation where only switch_branch stops a generation
\* and no command runs between that switch and the end of the worker's cleanup
NextSwitchDuring ==
    \/ ~SwitchedAway /\ \E c \in Convs, first \in BOOLEAN : create_conversation(c, first)
    \/ ~SwitchedAway /\ start_sidecar
    \/ ~SwitchedAway /\ \E c \in Convs : send_message(c, FALSE)
    \/ ~SwitchedAway /\ \E id \in 1..MaxMsgs : edit_message(id)
    \/ ~SwitchedAway /\ \E id \in 1..MaxMsgs : switch_branch(id)
    \/ run_process
    \/ \E healthy \in BOOLEAN : process_queue_health(healthy)
    \/ process_queue_context
    \/ \E accepted \in BOOLEAN, err \in ErrorTexts : process_queue_open(accepted, err)
    \/ \E ev \in {"done", "cancelled", "error"}, err \in ErrorTexts, isEmpty \in BOOLEAN :
          process_queue_stream_end(ev, err, isEmpty)

SpecSwitchDuring == Init /\ [][NextSwitchDuring]_vars

\* C39: when switch_branch ran during a generation of the conversation, the
\* worker's cleanup of that generation leaves active_message where the switch
\* put it (at the placeholder's parent where the switch put it on the
\* placeholder) and leaves the is_active_branch flags the switch established
C39_SwitchSurvivesCleanup ==
    [][SwitchedAway /\ ~HoldsReservation'
          => LET c == queue[wTask].conv
             IN /\ active_message'[c] =
                      IF active_message[c] = wMsg /\ wMsg \in MsgIds(messages)
                      THEN Msg(messages, wMsg).parent
                      ELSE active_message[c]
                /\ \A m \in messages : m.id # wMsg => m \in messages']_vars

\* ------------------------------------------------------------------ inference child processes
\* procs.handle is AppState.sidecar; a SidecarHandle shares its Child through an
\* Arc, and the Child is spawned with kill_on_drop(true): the process is killed
\* when stop_sidecar takes it or when the last clone of its handle is dropped
MaxChildren == 3    \* children ever spawned

\* the children some clone of a handle still refers to
Holders(p) ==
    ({p.handle, p.held, p.stopping} \cup {p.pc[k].child : k \in Callers}) \ {Nil}

\* the children alive after a step that ended `killed` and left the clones of p
Survivors(p, killed) == (p.alive \ killed) \cap Holders(p)

procsFrame ==
    UNCHANGED <<coreVars, personaVars, gen_old, chan, shut, snap, resp, content, spc,
                filterVars, ctx, reader, storeVars, jobs>>

\* commands::system::start_sidecar up to the is_model_loaded test
start_sidecar_check(k) ==
    /\ procs.pc[k].at = "idle"
    /\ procs.handle = Nil
    /\ procs' = [procs EXCEPT !.pc[k].at = "spawn"]
    /\ procsFrame

\* sidecar::start_sidecar: cmd.spawn() and the wait for the child's health
start_sidecar_spawn(k) ==
    /\ procs.pc[k].at = "spawn"
    /\ procs.spawned < MaxChildren
    /\ LET child == procs.spawned + 1
       IN procs' = [procs EXCEPT !.pc[k] = [at |-> "wait", child |-> child],
                                 !.spawned = child,
                                 !.alive = @ \cup {child}]
    /\ procsFrame

\* the child became healthy and set_sidecar(Some(handle)) replaces what shared
\* state held, or the wait timed out and stop_sidecar(handle) ends the child
start_sidecar_set(k, healthy) ==
    /\ procs.pc[k].at = "wait"
    /\ LET child == procs.pc[k].child
           p1 == [procs EXCEPT !.pc[k] = [at |-> "idle", child |-> Nil],
                               !.handle = IF healthy THEN child ELSE @]
       IN procs' = [p1 EXCEPT !.alive = Survivors(p1, IF healthy THEN {} ELSE {child})]
    /\ procsFrame

\* commands::system::stop_sidecar: get_sidecar
stop_sidecar_get ==
    /\ procs.stopping = Nil
    /\ procs.handle # Nil
    /\ procs' = [procs EXCEPT !.stopping = procs.handle]
    /\ procsFrame

\* commands::system::stop_sidecar: sidecar::stop_sidecar(handle), set_sidecar(None)
stop_sidecar_stop ==
    /\ procs.stopping # Nil
    /\ LET p1 == [procs EXCEPT !.stopping = Nil, !.handle = Nil]
       IN procs' = [p1 EXCEPT !.alive = Survivors(p1, {procs.stopping})]
    /\ procsFrame

\* process_queue: get_sidecar
process_queue_get_sidecar ==
    /\ procs.held = Nil
    /\ procs.handle # Nil
    /\ procs' = [procs EXCEPT !.held = procs.handle]
    /\ procsFrame

\* process_queue from the health check to its return, where its clone is dropped;
\* a failed check runs set_sidecar(None)
process_queue_watchdog(healthy) ==
    /\ procs.held # Nil
    /\ LET p1 == [procs EXCEPT !.held = Nil, !.handle = IF healthy THEN @ ELSE Nil]
       IN procs' = [p1 EXCEPT !.alive = Survivors(p1, {})]
    /\ procsFrame

NextProcs ==
    \/ \E k \in Callers : start_sidecar_check(k)
    \/ \E k \in Callers : start_sidecar_spawn(k)
    \/ \E k \in Callers, healthy \in BOOLEAN : start_sidecar_set(k, healthy)
    \/ stop_sidecar_get
    \/ stop_sidecar_stop
    \/ process_queue_get_sidecar
    \/ \E healthy \in BOOLEAN : process_queue_watchdog(healthy)

SpecProcs == Init /\ [][NextProcs]_vars

\* C40: at most one inference child is alive at a time and the handle in
\* shared state refers to it, whatever start_sidecar calls overlap or repeat;
\* and a handle replaced or cleared in shared state has had its child's
\* termination initiated
C40_OneChild ==
    /\ [](Cardinality(procs.alive) <= 1)
    /\ [](procs.handle # Nil => procs.alive = {procs.handle})
    /\ [][procs.handle # Nil /\ procs'.handle # procs.handle
            => procs.handle \notin procs'.alive]_vars

====
